---- MODULE Spec2Model ----
(***************************************************************************)
(* PeerTube2Nostr: the video queue, the rate limiter and the publish loop. *)
(*                                                                         *)
(* The repository holds two implementations of the same pipeline over the  *)
(* same sqlite schema: the command line program (src/peertube_nostr.py)    *)
(* and the web backend (src/webapp/backend/core).  impl says which one a   *)
(* behaviour runs; the store operations are shared, the runner loops and   *)
(* the operator commands differ and are modelled per implementation.       *)
(*                                                                         *)
(* Time is the wall clock read by UrlNormaliser.now_ts().  The store      *)
(* calls of one iteration fall into the same second; the clock advances    *)
(* (Tick) while the runner sleeps between two iterations.  Every store     *)
(* call is one committed statement and therefore one atomic step.          *)
(*                                                                         *)
(* The specifications share the variables.  Spec is the running loop with *)
(* the operator commands beside it, over a fixed upstream catalogue        *)
(* (Listing) of feed-only sources.  LoopSpec is the loop with its stop     *)
(* event and the exceptions that reach its outermost level, ConfigSpec the *)
(* loop under every configuration of signing key and relays, ManagerSpec   *)
(* the web backend's manager stopping and starting runners.  PollSpec is   *)
(* _ingest_source over every configuration of a source, QueueSpec the      *)
(* queue commands of the store with time passing between them, RegSpec the *)
(* relay and source tables under add, edit and remove calls.  UrlSpec,     *)
(* PickSpec and TagSpec apply the URL normaliser, the choice of the MP4    *)
(* file and the tag builder to every input of a bounded set.  AppSpec is   *)
(* the settings table, the API key and the setup token of the web backend  *)
(* under start-ups and requests.  IterSpec is one iteration of the loop    *)
(* with every fetch failing or succeeding, LiveSpec the loop left alone    *)
(* with a publisher that succeeds and a clock that advances at each sleep. *)
(***************************************************************************)
EXTENDS Integers, Sequences, FiniteSets, TLC

VARIABLES impl, st, now, ticks, enabled, videos, ing,
          rpc, rsel, lastRetry, ops, pubCalls, touched,
          srcs, up, lastOp,
          stop, stopAt, loopErrors,
          cfg, status,
          mgr, loop2,
          call, reg, app

vars == <<impl, st, now, ticks, enabled, videos, ing,
          rpc, rsel, lastRetry, ops, pubCalls, touched,
          srcs, up, lastOp, stop, stopAt, loopErrors, cfg, status, mgr, loop2, call, reg, app>>

(* The runner the manager of the web backend holds (0 for none, 1 for the  *)
(* first, 2 for the one started after a stop), and the loop of that second *)
(* runner: its position, the video it has selected, its stop event.        *)
mgrVars == <<mgr, loop2>>

(* The stop event of the runner, the position of the loop when it was set, *)
(* and the number of exceptions the loop has caught at its outermost       *)
(* level.                                                                  *)
loopVars == <<stop, stopAt, loopErrors>>

(* The rows of the sources table beyond the enabled flag, the upstream     *)
(* catalogue, and the record of the last store-level operation.            *)
pollVars == <<srcs, up, lastOp>>

(* The state of the runner loop and of the operator shell. *)
runVars == <<impl, st, enabled, ing, rpc, rsel, lastRetry, ops, pubCalls, touched,
             stop, stopAt, loopErrors, cfg, status, mgr, loop2, call, reg, app>>

(* ---------------------------- bounds ----------------------------------- *)
MaxTicks == 1
MaxOps == 1
MaxStoreTicks == 2
MaxLoopErrors == 1
T0 == 100000

(* ------------------------ program constants ---------------------------- *)
HourWindow == 3600
DayWindow == 86400
DefaultMinInterval == 1200
DefaultMaxPerHour == 3
DefaultMaxPerDay == 1
QueryLimit == 200
RetryCheckEvery == 60
RetryFailedAfter == 3600
DefaultLookbackDays == 30

NULL == -1
NoError == "null"

Sources == {1, 2}
TickSteps == {HourWindow, DayWindow}

(* The settings a behaviour runs under: the defaults of init_schema, and   *)
(* two operator choices (set-rate / POST /api/settings).                  *)
SettingsChoices ==
    { [min_interval |-> DefaultMinInterval, max_per_hour |-> DefaultMaxPerHour,
       max_per_day |-> DefaultMaxPerDay],
      [min_interval |-> 0, max_per_hour |-> 1, max_per_day |-> 1],
      [min_interval |-> 0, max_per_hour |-> 0, max_per_day |-> 1] }

(* The upstream catalogue of each source, oldest first, after the entry    *)
(* key and the published timestamp have been derived.                      *)
Listing(s) ==
    IF s = 1 THEN << [key |-> 1, ts |-> 10], [key |-> 2, ts |-> 20] >>
             ELSE << [key |-> 1, ts |-> NULL] >>

Max2(a, b) == IF a >= b THEN a ELSE b

Ids(vs) == 1 .. Len(vs)

(* ------------------------------ store ---------------------------------- *)
VideoExists(vs, sid, key) ==
    \E i \in Ids(vs) : vs[i].source_id = sid /\ vs[i].entry_key = key

NewRow(vs, sid, key, pts, ts) ==
    [id |-> Len(vs) + 1, source_id |-> sid, entry_key |-> key,
     published_ts |-> pts, first_seen_ts |-> ts, status |-> "pending",
     nostr_event_id |-> NULL, error |-> NoError,
     last_attempt_ts |-> NULL, posted_ts |-> NULL]

InsertPending_NoUnique(vs, sid, key, pts, ts) ==
    Append(vs, NewRow(vs, sid, key, pts, ts))

InsertPending_Replace(vs, sid, key, pts, ts) ==
    IF VideoExists(vs, sid, key)
    THEN [i \in Ids(vs) |->
            IF vs[i].source_id = sid /\ vs[i].entry_key = key
            THEN [NewRow(vs, sid, key, pts, ts) EXCEPT !.id = i] ELSE vs[i]]
    ELSE Append(vs, NewRow(vs, sid, key, pts, ts))

InsertPending(vs, sid, key, pts, ts) ==
    IF VideoExists(vs, sid, key) THEN vs
    ELSE Append(vs, NewRow(vs, sid, key, pts, ts))

UpdatePublishedTsIfNull(vs, sid, key, pts) ==
    [i \in Ids(vs) |->
        IF vs[i].source_id = sid /\ vs[i].entry_key = key
           /\ vs[i].published_ts = NULL
        THEN [vs[i] EXCEPT !.published_ts = pts] ELSE vs[i]]

MarkPosted(vs, id, eid, ts) ==
    [i \in Ids(vs) |->
        IF vs[i].id = id
        THEN [vs[i] EXCEPT !.status = "posted", !.nostr_event_id = eid,
                           !.posted_ts = ts, !.last_attempt_ts = ts,
                           !.error = NoError]
        ELSE vs[i]]

MarkFailed(vs, id, err, ts) ==
    [i \in Ids(vs) |->
        IF vs[i].id = id
        THEN [vs[i] EXCEPT !.status = "failed", !.error = err,
                           !.last_attempt_ts = ts]
        ELSE vs[i]]

ClearPendingForSource_AllSources(vs, sid, ts) ==
    [i \in Ids(vs) |->
        IF vs[i].status = "pending"
        THEN [vs[i] EXCEPT !.status = "cancelled",
                           !.error = "cleared by resync",
                           !.last_attempt_ts = ts]
        ELSE vs[i]]

ClearPendingForSource(vs, sid, ts) ==
    [i \in Ids(vs) |->
        IF vs[i].source_id = sid /\ vs[i].status = "pending"
        THEN [vs[i] EXCEPT !.status = "cancelled",
                           !.error = "cleared by resync",
                           !.last_attempt_ts = ts]
        ELSE vs[i]]

RetryFailed_Inclusive(vs, older, ts) ==
    [i \in Ids(vs) |->
        IF vs[i].status = "failed"
           /\ (vs[i].last_attempt_ts = NULL \/ vs[i].last_attempt_ts <= ts - older)
        THEN [vs[i] EXCEPT !.status = "pending"] ELSE vs[i]]

RetryFailed(vs, older, ts) ==
    [i \in Ids(vs) |->
        IF vs[i].status = "failed"
           /\ (vs[i].last_attempt_ts = NULL \/ vs[i].last_attempt_ts < ts - older)
        THEN [vs[i] EXCEPT !.status = "pending"] ELSE vs[i]]

RetryFailedForSource(vs, sid, older, ts) ==
    [i \in Ids(vs) |->
        IF vs[i].status = "failed" /\ vs[i].source_id = sid
           /\ (vs[i].last_attempt_ts = NULL \/ vs[i].last_attempt_ts < ts - older)
        THEN [vs[i] EXCEPT !.status = "pending"] ELSE vs[i]]

PostedSince(vs, since) ==
    {i \in Ids(vs) : vs[i].status = "posted" /\ vs[i].posted_ts # NULL
                     /\ vs[i].posted_ts >= since}

CountPostedSince(vs, since) == Cardinality(PostedSince(vs, since))

CountPostedSinceForSource_Ever(vs, sid, since) ==
    Cardinality({i \in Ids(vs) : vs[i].status = "posted" /\ vs[i].source_id = sid})

CountPostedSinceForSource(vs, sid, since) ==
    Cardinality({i \in PostedSince(vs, since) : vs[i].source_id = sid})

(* MIN(posted_ts) over the window, NULL when the window is empty *)
OldestPostedSince(vs, since) ==
    IF PostedSince(vs, since) = {} THEN NULL
    ELSE CHOOSE t \in {vs[i].posted_ts : i \in PostedSince(vs, since)} :
            \A j \in PostedSince(vs, since) : t <= vs[j].posted_ts

OldestPostedSinceForSource(vs, sid, since) ==
    LET P == {i \in PostedSince(vs, since) : vs[i].source_id = sid}
    IN  IF P = {} THEN NULL
        ELSE CHOOSE t \in {vs[i].posted_ts : i \in P} :
                \A j \in P : t <= vs[j].posted_ts

(* MAX(posted_ts) over the posted rows, NULL when there is none *)
LastPostedTs(vs) ==
    LET P == {i \in Ids(vs) : vs[i].status = "posted" /\ vs[i].posted_ts # NULL}
    IN  IF P = {} THEN NULL
        ELSE CHOOSE t \in {vs[i].posted_ts : i \in P} :
                \A j \in P : t >= vs[j].posted_ts

(* ORDER BY (published_ts IS NULL), published_ts, first_seen_ts; rows that *)
(* tie on all three come out in rowid order.                               *)
Before(a, b) ==
    LET na == IF a.published_ts = NULL THEN 1 ELSE 0
        nb == IF b.published_ts = NULL THEN 1 ELSE 0
    IN  \/ na < nb
        \/ /\ na = nb
           /\ na = 0
           /\ a.published_ts < b.published_ts
        \/ /\ na = nb
           /\ (na = 1 \/ a.published_ts = b.published_ts)
           /\ \/ a.first_seen_ts < b.first_seen_ts
              \/ a.first_seen_ts = b.first_seen_ts /\ a.id < b.id

PendingRows(vs, en) ==
    {i \in Ids(vs) : vs[i].status = "pending" /\ en[vs[i].source_id]}

First(vs, S) ==
    IF S = {} THEN 0
    ELSE CHOOSE i \in S : \A j \in S \ {i} : Before(vs[i], vs[j])

(* Store.next_pending of the command line program: the head of the queue *)
NextPending(vs, en) == First(vs, PendingRows(vs, en))

Rank(vs, S, i) == Cardinality({j \in S : Before(vs[j], vs[i])})

NextPendingEligible_NoCap(vs, en, nowTs, maxPerDay) ==
    LET rows == {i \in PendingRows(vs, en) :
                    Rank(vs, PendingRows(vs, en), i) < QueryLimit}
    IN  First(vs, rows)

(* Store.next_pending_eligible of the web backend *)
NextPendingEligible(vs, en, nowTs, maxPerDay) ==
    LET rows == {i \in PendingRows(vs, en) :
                    Rank(vs, PendingRows(vs, en), i) < QueryLimit}
        ok   == {i \in rows :
                    CountPostedSinceForSource(vs, vs[i].source_id,
                                              nowTs - DayWindow) < maxPerDay}
    IN  First(vs, ok)

(* --------------------------- rate limiter ------------------------------ *)
WaitInterval(vs, nowTs) ==
    LET last == IF LastPostedTs(vs) = NULL THEN 0 ELSE LastPostedTs(vs)
    IN  IF last # 0 THEN Max2(0, st.min_interval - (nowTs - last)) ELSE 0

WaitHourly(vs, nowTs) ==
    IF CountPostedSince(vs, nowTs - HourWindow) >= st.max_per_hour
    THEN LET oldest == OldestPostedSince(vs, nowTs - HourWindow)
         IN  IF oldest # NULL /\ oldest # 0
             THEN Max2(0, HourWindow - (nowTs - oldest)) ELSE 0
    ELSE 0

WaitDailyForSource(vs, sid, nowTs) ==
    IF st.max_per_day <= 0 THEN 0
    ELSE IF CountPostedSinceForSource(vs, sid, nowTs - DayWindow) >= st.max_per_day
    THEN LET oldest == OldestPostedSinceForSource(vs, sid, nowTs - DayWindow)
         IN  IF oldest # NULL /\ oldest # 0
             THEN Max2(0, DayWindow - (nowTs - oldest)) ELSE 0
    ELSE 0

NextWait_IntervalOnly(vs, sid, nowTs) == WaitInterval(vs, nowTs)

NextWait(vs, sid, nowTs) ==
    Max2(WaitInterval(vs, nowTs),
         Max2(WaitHourly(vs, nowTs), WaitDailyForSource(vs, sid, nowTs)))

(* The three nested checks of Runner.run in the command line program;      *)
(* cand is the row next_pending returned, 0 for none.                      *)
CliMayPublish(vs, cand, nowTs) ==
    LET last == IF LastPostedTs(vs) = NULL THEN 0 ELSE LastPostedTs(vs)
    IN  /\ ~(last # 0 /\ (nowTs - last) < st.min_interval)
        /\ ~(CountPostedSince(vs, nowTs - HourWindow) >= st.max_per_hour)
        /\ cand # 0
        /\ ~(CountPostedSinceForSource(vs, vs[cand].source_id, nowTs - DayWindow)
               >= st.max_per_day)

(* The video the runner looks at: next_pending in the command line         *)
(* program, next_pending_eligible in the web backend; 0 for none.          *)
SelectNext(vs, en, nowTs) ==
    IF impl = "cli" THEN NextPending(vs, en)
    ELSE NextPendingEligible(vs, en, nowTs, st.max_per_day)

(* ------------------------------ ingest --------------------------------- *)
(* Position of the runner inside ingest_sources_once: q the sources still  *)
(* to poll, i the entry of the first of them, ph the store call that is    *)
(* next for that entry.                                                    *)
IdleIngest == [q |-> << >>, i |-> 1, ph |-> "check"]

SeqOfSet(S) ==
    IF S = {} THEN << >>
    ELSE IF S = {1} THEN <<1>>
    ELSE IF S = {2} THEN <<2>>
    ELSE <<1, 2>>

(* get_enabled_sources: ORDER BY id *)
EnabledSources(en) == SeqOfSet({s \in Sources : en[s]})

Advance(r) ==
    IF r.i < Len(Listing(Head(r.q)))
    THEN [r EXCEPT !.i = r.i + 1, !.ph = "check"]
    ELSE [q |-> Tail(r.q), i |-> 1, ph |-> "check"]

(* The body of the entry loop of _ingest_source in the command line        *)
(* program for one entry: video_exists, then update_published_ts_if_null   *)
(* or insert_pending.                                                      *)
IngestEntry(vs, s, e, ts) ==
    IF VideoExists(vs, s, e.key)
    THEN IF e.ts # NULL /\ e.ts # 0
         THEN UpdatePublishedTsIfNull(vs, s, e.key, e.ts) ELSE vs
    ELSE InsertPending(vs, s, e.key, e.ts, ts)

RECURSIVE IngestSource(_, _, _, _)
IngestSource(vs, s, k, ts) ==
    IF k > Len(Listing(s)) THEN vs
    ELSE IngestSource(IngestEntry(vs, s, Listing(s)[k], ts), s, k + 1, ts)

RECURSIVE IngestSourcesOnce(_, _, _)
IngestSourcesOnce(vs, q, ts) ==
    IF q = << >> THEN vs
    ELSE IngestSourcesOnce(IngestSource(vs, Head(q), 1, ts), Tail(q), ts)

(* One store call of the runner inside _ingest_source / ingest_entries.    *)
IngestStep ==
    /\ ing.q # << >>
    /\ LET s == Head(ing.q)
           e == Listing(s)[ing.i]
       IN  IF impl = "cli" /\ ing.ph = "check"
           THEN IF VideoExists(videos, s, e.key)
                THEN /\ videos' = IngestEntry(videos, s, e, now)
                     /\ ing' = Advance(ing)
                ELSE /\ ing' = [ing EXCEPT !.ph = "insert"]
                     /\ UNCHANGED videos
           ELSE /\ videos' = InsertPending(videos, s, e.key, e.ts, now)
                /\ ing' = Advance(ing)

(* ------------------------------- poll ---------------------------------- *)
(* A row of the sources table: api says that api_base and api_channel are  *)
(* set, rss that rss_url is set.                                           *)
FeedOnlySource ==
    [api |-> FALSE, rss |-> TRUE, lookback_days |-> 0,
     last_polled_ts |-> NULL, last_error |-> NoError]

SourceConfigs ==
    {[api |-> a, rss |-> r, lookback_days |-> d,
      last_polled_ts |-> NULL, last_error |-> NoError] :
        a \in BOOLEAN, r \in BOOLEAN, d \in {0, 1}}

(* The cut-off of a poll: only for a source that was never polled, NULL    *)
(* for none.                                                               *)
Cutoff(row, ts) ==
    IF row.last_polled_ts = NULL \/ row.last_polled_ts = 0
    THEN LET lb == IF row.lookback_days # NULL THEN row.lookback_days
                   ELSE DefaultLookbackDays
         IN  IF lb > 0 THEN ts - lb * DayWindow ELSE NULL
    ELSE NULL

(* The entry loop body of _ingest_source in the command line program.      *)
IngestEntryCutoff(vs, s, e, ts, cutoff) ==
    IF VideoExists(vs, s, e.key)
    THEN IF e.ts # NULL /\ e.ts # 0
         THEN UpdatePublishedTsIfNull(vs, s, e.key, e.ts) ELSE vs
    ELSE IF cutoff # NULL /\ cutoff # 0 /\ e.ts # NULL /\ e.ts # 0
            /\ e.ts < cutoff
         THEN vs
         ELSE InsertPending(vs, s, e.key, e.ts, ts)

RECURSIVE IngestEntries(_, _, _, _, _)
IngestEntries(vs, s, items, ts, cutoff) ==
    IF items = << >> THEN vs
    ELSE IngestEntries(IngestEntryCutoff(vs, s, Head(items), ts, cutoff),
                       s, Tail(items), ts, cutoff)

(* IngestPipeline.ingest_entries of the web backend: insert_pending for    *)
(* every entry, the cut-off it is given is not used.                       *)
RECURSIVE WebIngestEntries(_, _, _, _)
WebIngestEntries(vs, s, items, ts) ==
    IF items = << >> THEN vs
    ELSE WebIngestEntries(InsertPending(vs, s, Head(items).key, Head(items).ts, ts),
                          s, Tail(items), ts)

MarkSourcePolled(row, err, ts) ==
    [row EXCEPT !.last_polled_ts = ts, !.last_error = err]

ApiSucceeded_NonEmpty(apiRes) == apiRes = "items"

(* "if vids is not None": an empty listing is a success. *)
ApiSucceeded(apiRes) == apiRes # "fail"

NoFallbackError_None(err) == NoError

(* The error recorded when there is no feed to fall back to. *)
NoFallbackError(err) == IF err # NoError THEN err ELSE "No RSS fallback"

(* _ingest_source: apiRes is what list_channel_videos gives ("fail" for    *)
(* None, "empty" for an empty list, "items"), feedRes what parse_rss does  *)
(* ("fail" when it raises), items the upstream catalogue, oldest first.    *)
PollSource(vs, row, s, apiRes, feedRes, items, ts) ==
    LET cutoff == Cutoff(row, ts)
        ingest(list) == IF impl = "cli"
                        THEN IngestEntries(vs, s, list, ts, cutoff)
                        ELSE WebIngestEntries(vs, s, list, ts)
        err == IF row.api THEN "API failed" ELSE NoError
    IN  IF row.api /\ ApiSucceeded(apiRes)
        THEN [videos |-> ingest(IF apiRes = "empty" THEN << >> ELSE items),
              src |-> MarkSourcePolled(row, NoError, ts)]
        ELSE IF row.rss
        THEN IF feedRes = "ok"
             THEN [videos |-> ingest(items),
                   src |-> MarkSourcePolled(row, err, ts)]
             ELSE [videos |-> vs,
                   src |-> MarkSourcePolled(row,
                              IF err # NoError THEN "API failed; RSS failed"
                              ELSE "RSS failed", ts)]
        ELSE [videos |-> vs,
              src |-> MarkSourcePolled(row, NoFallbackError(err), ts)]

(* rowcount of retry_failed and of clear_pending_for_source *)
RetryFailedCount(vs, older, ts) ==
    Cardinality({i \in Ids(vs) :
        vs[i].status = "failed"
        /\ (vs[i].last_attempt_ts = NULL \/ vs[i].last_attempt_ts < ts - older)})

ClearPendingCount(vs, sid) ==
    Cardinality({i \in Ids(vs) : vs[i].source_id = sid /\ vs[i].status = "pending"})

(* SQL NULL in a column that holds a URL. *)
NullUrl == [scheme |-> "", host |-> "", port |-> NULL, path |-> << >>,
            query |-> "", fragment |-> ""]

(* The relays and sources tables of a new database, by their URL columns,  *)
(* and the last call that wrote to them.                                   *)
EmptyRegistry ==
    [relays |-> << >>, sources |-> << >>, nextRelay |-> 1, nextSource |-> 1, n |-> 0,
     last |-> [op |-> "none", arg |-> NullUrl, id |-> 0, ret |-> 0, raised |-> FALSE]]

(* The settings table and the setup token of the manager.  A key without  *)
(* a row holds NULL.  An API key or a setup token is the number of the     *)
(* secrets.token_urlsafe call that made it (0 for none): the calls return  *)
(* 128 and 256 random bits and are taken never to repeat a value.          *)
LimitKeys == {"min_publish_interval_seconds", "max_posts_per_hour",
              "max_posts_per_day_per_source"}

SettingKeys == LimitKeys \cup {"api_key", "setup_complete"}

NoSettings == [k \in SettingKeys |-> NULL]

EnsureSetting_Overwrite(s, key, value) == [s EXCEPT ![key] = value]

(* Store._ensure_setting *)
EnsureSetting(s, key, value) ==
    IF s[key] = NULL THEN [s EXCEPT ![key] = value] ELSE s

(* The settings part of Store.init_schema *)
InitSchema(s) ==
    EnsureSetting(
        EnsureSetting(
            EnsureSetting(s, "min_publish_interval_seconds", DefaultMinInterval),
            "max_posts_per_hour", DefaultMaxPerHour),
        "max_posts_per_day_per_source", DefaultMaxPerDay)

(* Store.set_setting *)
SetSetting(s, key, value) == [s EXCEPT ![key] = value]

(* AppManager.get_api_key: the stored key, "" when there is none *)
GetApiKey(a) == IF a.settings["api_key"] = NULL THEN 0 ELSE a.settings["api_key"]

(* AppManager.regenerate_api_key, also the body of _check_first_run *)
RegenerateApiKey(a) ==
    [a EXCEPT !.keys = @ + 1, !.settings = SetSetting(@, "api_key", a.keys + 1)]

(* AppManager._check_first_run *)
CheckFirstRun(a) == IF GetApiKey(a) = 0 THEN RegenerateApiKey(a) ELSE a

(* After the first start on a new database: the default limits, in the    *)
(* web backend the first API key, and no setup token.                      *)
AppStarted(i) ==
    LET a == [settings |-> InitSchema(NoSettings), token |-> 0, expiry |-> NULL,
              tokens |-> 0, keys |-> 0, n |-> 0,
              last |-> [op |-> "none", arg |-> 0, ok |-> TRUE]]
    IN  IF i = "web" THEN CheckFirstRun(a) ELSE a

(* No function of the pipeline has been called on its own. *)
NoCall == [f |-> "none"]

(* No second runner has been started. *)
NoLoop == [pc |-> "none", sel |-> 0, stop |-> FALSE]

(* The record of the last store-level operation: what was called, with     *)
(* what, when, and what it returned; again says that a poll repeats the    *)
(* poll before it (same feed-only source, same second, same feed, both     *)
(* parsed).                                                                *)
NoOp ==
    [kind |-> "none", s |-> 0, api |-> "none", feed |-> "none", older |-> 0,
     ret |-> 0, t |-> 0, again |-> FALSE]

(* ------------------------------ runner --------------------------------- *)
(* Loop head: the periodic retry_failed of the command line program, then  *)
(* the snapshot of the enabled sources that ingest_sources_once iterates.  *)
RunnerBegin ==
    /\ rpc = "head"
    /\ ~stop
    /\ IF impl = "cli" /\ (lastRetry = 0 \/ now - lastRetry >= RetryCheckEvery)
       THEN /\ videos' = RetryFailed(videos, RetryFailedAfter, now)
            /\ lastRetry' = now
       ELSE UNCHANGED <<videos, lastRetry, ops>>
    /\ ing' = [q |-> EnabledSources(enabled), i |-> 1, ph |-> "check"]
    /\ rpc' = "ingest"
    /\ UNCHANGED <<ops, impl, st, now, ticks, enabled, rsel, pubCalls, touched>>
    /\ UNCHANGED pollVars
    /\ UNCHANGED mgrVars
    /\ UNCHANGED <<call, reg, app>>
    /\ status' = (IF impl = "cli" THEN "Fetching feeds" ELSE "polling")
    /\ UNCHANGED cfg
    /\ UNCHANGED loopVars

RunnerIngest ==
    /\ rpc = "ingest"
    /\ IngestStep
    /\ UNCHANGED <<impl, st, now, ticks, enabled, rpc, rsel, lastRetry, ops, pubCalls, touched>>
    /\ UNCHANGED pollVars
    /\ UNCHANGED mgrVars
    /\ UNCHANGED <<call, reg, app>>
    /\ UNCHANGED <<cfg, status>>
    /\ UNCHANGED loopVars

(* The iteration publishes only with a signing key; the web loop also      *)
(* wants an enabled relay, the command line loop falls back on             *)
(* DEFAULT_RELAYS when none is enabled.                                    *)
Configured == IF impl = "cli" THEN cfg.nsec ELSE cfg.nsec /\ cfg.relays

(* The status the iteration reports from its publish branch. *)
RateStatus(vs, cand, nowTs) ==
    IF impl = "cli"
    THEN IF ~cfg.nsec THEN "Idle"
         ELSE IF CliMayPublish(vs, cand, nowTs) THEN "Publishing"
         ELSE IF cand = 0
                 /\ WaitInterval(vs, nowTs) = 0
                 /\ CountPostedSince(vs, nowTs - HourWindow) < st.max_per_hour
              THEN "Idle"
              ELSE "Rate limited"
    ELSE IF ~(cfg.nsec /\ cfg.relays) THEN "waiting-config"
         ELSE IF cand = 0 THEN "idle"
         ELSE IF NextWait(vs, vs[cand].source_id, nowTs) <= 0 THEN "publishing"
         ELSE "rate-limited"

(* The status once publish_one_pending has returned. *)
StatusAfterPublish == IF impl = "cli" THEN "Idle" ELSE status

(* The rate check of the iteration. *)
RunnerRateCheck ==
    /\ rpc = "ingest"
    /\ ing.q = << >>
    /\ LET cand == SelectNext(videos, enabled, now)
           go   == IF impl = "cli" THEN CliMayPublish(videos, cand, now)
                   ELSE cand # 0 /\ NextWait(videos, videos[cand].source_id, now) <= 0
       IN  rpc' = IF Configured /\ go THEN "select" ELSE "sleep"
    /\ UNCHANGED <<impl, st, now, ticks, enabled, videos, ing, rsel, lastRetry, ops, pubCalls, touched>>
    /\ UNCHANGED pollVars
    /\ UNCHANGED mgrVars
    /\ UNCHANGED <<call, reg, app>>
    /\ status' = RateStatus(videos, SelectNext(videos, enabled, now), now)
    /\ UNCHANGED cfg
    /\ UNCHANGED loopVars

(* publish_one_pending, first statement: the video to send is selected     *)
(* again.                                                                  *)
RunnerSelect ==
    /\ rpc = "select"
    /\ LET p == SelectNext(videos, enabled, now)
       IN  /\ rsel' = p
           /\ rpc' = IF p = 0 THEN "sleep" ELSE "publish"
    /\ UNCHANGED <<impl, st, now, ticks, enabled, videos, ing, lastRetry, ops, pubCalls, touched>>
    /\ UNCHANGED pollVars
    /\ UNCHANGED mgrVars
    /\ UNCHANGED <<call, reg, app>>
    /\ status' = (IF SelectNext(videos, enabled, now) = 0 THEN StatusAfterPublish ELSE status)
    /\ UNCHANGED cfg
    /\ UNCHANGED loopVars

AfterPublish_Again == "select"

(* Where the iteration goes once publish_one_pending has returned: the     *)
(* loop calls it once and sleeps.                                          *)
AfterPublish == "sleep"

(* The publisher call returns an event id or raises. *)
RunnerPublish ==
    /\ rpc = "publish"
    /\ pubCalls' = pubCalls + 1
    /\ touched' = touched \cup {rsel}
    /\ \E ok \in BOOLEAN :
          IF ok
          THEN /\ videos' = MarkPosted(videos, rsel, rsel, now)
               /\ rpc' = "book"
               /\ status' = status
          ELSE /\ videos' = MarkFailed(videos, rsel, "publish failed", now)
               /\ rpc' = AfterPublish
               /\ status' = StatusAfterPublish
    /\ UNCHANGED <<impl, st, now, ticks, enabled, ing, rsel, lastRetry, ops>>
    /\ UNCHANGED pollVars
    /\ UNCHANGED mgrVars
    /\ UNCHANGED <<call, reg, app>>
    /\ UNCHANGED cfg
    /\ UNCHANGED loopVars

(* The statements that follow mark_posted inside the same try block        *)
(* (mark_relay_used for every relay, the log line): when one of them       *)
(* raises, the except branch runs mark_failed on the same video.           *)
RunnerBookkeeping ==
    /\ rpc = "book"
    /\ \E raised \in BOOLEAN :
          IF raised
          THEN videos' = MarkFailed(videos, rsel, "bookkeeping failed", now)
          ELSE videos' = videos
    /\ rpc' = AfterPublish
    /\ UNCHANGED <<impl, st, now, ticks, enabled, ing, rsel, lastRetry, ops, pubCalls, touched>>
    /\ UNCHANGED pollVars
    /\ UNCHANGED mgrVars
    /\ UNCHANGED <<call, reg, app>>
    /\ status' = StatusAfterPublish
    /\ UNCHANGED cfg
    /\ UNCHANGED loopVars

(* Where the sleep of an iteration ends: _sleep_interruptible returns False *)
(* on the stop event and run returns; the sleep loop of run_loop breaks    *)
(* and the while condition is tested next.                                 *)
AfterSleep(stopped) == IF stopped /\ impl = "cli" THEN "stopped" ELSE "head"

(* The sleep between two iterations; the locals of the iteration die.     *)
RunnerSleep ==
    /\ rpc = "sleep"
    /\ rpc' = AfterSleep(stop)
    /\ rsel' = 0
    /\ pubCalls' = 0
    /\ touched' = {}
    /\ UNCHANGED <<impl, st, now, ticks, enabled, videos, ing, lastRetry, ops>>
    /\ UNCHANGED pollVars
    /\ UNCHANGED mgrVars
    /\ UNCHANGED <<call, reg, app>>
    /\ status' = (IF impl = "cli" THEN "Idle" ELSE status)
    /\ UNCHANGED cfg
    /\ UNCHANGED loopVars

(* ------------------------- stop and loop errors ------------------------ *)
Ended == rpc \in {"stopped", "interrupted"}

(* stop_event.set() from the shell or the TUI, Runner.stop() from the      *)
(* manager of the web backend.                                             *)
SetStop ==
    /\ ~stop
    /\ ~Ended
    /\ stop' = TRUE
    /\ stopAt' = rpc
    /\ UNCHANGED <<impl, st, now, ticks, enabled, videos, ing, rpc, rsel, lastRetry,
                   ops, pubCalls, touched, loopErrors>>
    /\ UNCHANGED pollVars
    /\ UNCHANGED mgrVars
    /\ UNCHANGED <<call, reg, app>>
    /\ UNCHANGED <<cfg, status>>

(* The stop check at the loop head. *)
RunnerExit ==
    /\ rpc = "head"
    /\ stop
    /\ rpc' = "stopped"
    /\ UNCHANGED <<impl, st, now, ticks, enabled, videos, ing, rsel, lastRetry,
                   ops, pubCalls, touched>>
    /\ UNCHANGED pollVars
    /\ UNCHANGED mgrVars
    /\ UNCHANGED <<call, reg, app>>
    /\ UNCHANGED <<cfg, status>>
    /\ UNCHANGED loopVars

AfterLoopError_Exit == "stopped"

(* except Exception at the outermost level of the loop: log, back off. *)
AfterLoopError == "backoff"

(* A statement of ingest_sources_once or of publish_one_pending raises an  *)
(* exception that nothing below the loop catches (a store call, the        *)
(* handler of a failed publish); what the iteration has committed stays.   *)
RunnerRaise ==
    /\ rpc \in {"ingest", "select", "publish", "book"}
    /\ loopErrors < MaxLoopErrors
    /\ loopErrors' = loopErrors + 1
    /\ rpc' = AfterLoopError
    /\ ing' = IdleIngest
    /\ rsel' = 0
    /\ pubCalls' = 0
    /\ touched' = {}
    /\ UNCHANGED <<impl, st, now, ticks, enabled, videos, lastRetry, ops, stop, stopAt>>
    /\ UNCHANGED pollVars
    /\ UNCHANGED mgrVars
    /\ UNCHANGED <<call, reg, app>>
    /\ UNCHANGED <<cfg, status>>

(* The back-off is over (or was cut short by the stop event): the loop     *)
(* goes to its head.                                                       *)
RunnerBackoff ==
    /\ rpc = "backoff"
    /\ rpc' = "head"
    /\ UNCHANGED <<impl, st, now, ticks, enabled, videos, ing, rsel, lastRetry,
                   ops, pubCalls, touched>>
    /\ UNCHANGED pollVars
    /\ UNCHANGED mgrVars
    /\ UNCHANGED <<call, reg, app>>
    /\ UNCHANGED <<cfg, status>>
    /\ UNCHANGED loopVars

(* KeyboardInterrupt in the command line program: run returns and the     *)
(* locals of the iteration die.                                            *)
RunnerInterrupt ==
    /\ impl = "cli"
    /\ ~Ended
    /\ rpc' = "interrupted"
    /\ ing' = IdleIngest
    /\ rsel' = 0
    /\ pubCalls' = 0
    /\ touched' = {}
    /\ UNCHANGED <<impl, st, now, ticks, enabled, videos, lastRetry, ops>>
    /\ UNCHANGED pollVars
    /\ UNCHANGED mgrVars
    /\ UNCHANGED <<call, reg, app>>
    /\ UNCHANGED <<cfg, status>>
    /\ UNCHANGED loopVars

(* ------------------------- manager, second loop ------------------------ *)
RECURSIVE WebIngestSourcesOnce(_, _, _)
WebIngestSourcesOnce(vs, q, ts) ==
    IF q = << >> THEN vs
    ELSE WebIngestSourcesOnce(WebIngestEntries(vs, Head(q), Listing(Head(q)), ts),
                              Tail(q), ts)

(* AppManager.start_background_task: nothing while a runner is held, else  *)
(* a new Runner and a new thread on run_loop.                              *)
StartBackgroundTask ==
    /\ impl = "web"
    /\ mgr # 0 \/ loop2.pc = "none"
    /\ IF mgr # 0
       THEN /\ lastOp' = [NoOp EXCEPT !.kind = "start", !.t = now]
            /\ UNCHANGED <<mgr, loop2>>
       ELSE /\ lastOp' = [NoOp EXCEPT !.kind = "start", !.ret = 1, !.t = now]
            /\ mgr' = 2
            /\ loop2' = [pc |-> "head", sel |-> 0, stop |-> FALSE]
    /\ UNCHANGED <<impl, st, now, ticks, enabled, videos, ing, rpc, rsel, lastRetry,
                   ops, pubCalls, touched, srcs, up, stop, stopAt, loopErrors,
                   cfg, status>>
    /\ UNCHANGED <<call, reg, app>>

(* AppManager.stop_background_task: Runner.stop() on the runner held, which *)
(* is then forgotten together with its thread; the thread is not joined.   *)
StopBackgroundTask ==
    /\ impl = "web"
    /\ mgr # 0
    /\ IF mgr = 1
       THEN /\ stop' = TRUE
            /\ stopAt' = IF stop THEN stopAt ELSE rpc
            /\ UNCHANGED loop2
       ELSE /\ loop2' = [loop2 EXCEPT !.stop = TRUE]
            /\ UNCHANGED <<stop, stopAt>>
    /\ mgr' = 0
    /\ status' = "stopped"
    /\ lastOp' = [NoOp EXCEPT !.kind = "stop", !.t = now]
    /\ UNCHANGED <<impl, st, now, ticks, enabled, videos, ing, rpc, rsel, lastRetry,
                   ops, pubCalls, touched, srcs, up, loopErrors, cfg>>
    /\ UNCHANGED <<call, reg, app>>

(* run_loop of the second runner: the while test and ingest_sources_once. *)
Runner2Begin ==
    /\ loop2.pc = "head"
    /\ IF loop2.stop
       THEN /\ loop2' = [loop2 EXCEPT !.pc = "stopped"]
            /\ UNCHANGED <<videos, status>>
       ELSE /\ videos' = WebIngestSourcesOnce(videos, EnabledSources(enabled), now)
            /\ loop2' = [loop2 EXCEPT !.pc = "check"]
            /\ status' = "polling"
    /\ UNCHANGED <<impl, st, now, ticks, enabled, ing, rpc, rsel, lastRetry,
                   ops, pubCalls, touched, stop, stopAt, loopErrors, cfg, mgr>>
    /\ UNCHANGED pollVars
    /\ UNCHANGED <<call, reg, app>>

(* The publish branch of the second runner up to the selection inside      *)
(* publish_one_pending.                                                    *)
Runner2Select ==
    /\ loop2.pc = "check"
    /\ LET cand == NextPendingEligible(videos, enabled, now, st.max_per_day)
           go   == /\ Configured
                   /\ cand # 0
                   /\ NextWait(videos, videos[cand].source_id, now) <= 0
       IN  /\ loop2' = [loop2 EXCEPT !.pc = IF go THEN "publish" ELSE "sleep",
                                     !.sel = IF go THEN cand ELSE 0]
           /\ status' = RateStatus(videos, cand, now)
    /\ UNCHANGED <<impl, st, now, ticks, enabled, videos, ing, rpc, rsel, lastRetry,
                   ops, pubCalls, touched, stop, stopAt, loopErrors, cfg, mgr>>
    /\ UNCHANGED pollVars
    /\ UNCHANGED <<call, reg, app>>

(* The publisher call of the second runner and what follows it. *)
Runner2Publish ==
    /\ loop2.pc = "publish"
    /\ \E out \in {"ok", "raised", "late"} :
          videos' = IF out = "ok"
                    THEN MarkPosted(videos, loop2.sel, loop2.sel, now)
                    ELSE IF out = "raised"
                    THEN MarkFailed(videos, loop2.sel, "publish failed", now)
                    ELSE MarkFailed(MarkPosted(videos, loop2.sel, loop2.sel, now),
                                    loop2.sel, "bookkeeping failed", now)
    /\ loop2' = [loop2 EXCEPT !.pc = "sleep"]
    /\ UNCHANGED <<impl, st, now, ticks, enabled, ing, rpc, rsel, lastRetry,
                   ops, pubCalls, touched, stop, stopAt, loopErrors, cfg, status, mgr>>
    /\ UNCHANGED pollVars
    /\ UNCHANGED <<call, reg, app>>

Runner2Sleep ==
    /\ loop2.pc = "sleep"
    /\ loop2' = [loop2 EXCEPT !.pc = "head", !.sel = 0]
    /\ UNCHANGED <<impl, st, now, ticks, enabled, videos, ing, rpc, rsel, lastRetry,
                   ops, pubCalls, touched, stop, stopAt, loopErrors, cfg, status, mgr>>
    /\ UNCHANGED pollVars
    /\ UNCHANGED <<call, reg, app>>

(* ----------------------------- operator -------------------------------- *)
(* An operator command runs on its own connection while the runner is      *)
(* anywhere in its iteration; each command is one step.                    *)
OpSetSourceEnabled ==
    /\ ops < MaxOps
    /\ ops' = ops + 1
    /\ \E s \in Sources, b \in BOOLEAN :
          /\ enabled[s] # b
          /\ enabled' = [enabled EXCEPT ![s] = b]
    /\ UNCHANGED <<impl, st, now, ticks, videos, ing, rpc, rsel, lastRetry, pubCalls, touched>>
    /\ UNCHANGED pollVars
    /\ UNCHANGED mgrVars
    /\ UNCHANGED <<call, reg, app>>
    /\ UNCHANGED <<cfg, status>>
    /\ UNCHANGED loopVars

(* refresh: ingest_sources_once from the shell *)
OpRefresh ==
    /\ ops < MaxOps
    /\ ops' = ops + 1
    /\ impl = "cli"
    /\ videos' = IngestSourcesOnce(videos, EnabledSources(enabled), now)
    /\ UNCHANGED <<impl, st, now, ticks, enabled, ing, rpc, rsel, lastRetry, pubCalls, touched>>
    /\ UNCHANGED pollVars
    /\ UNCHANGED mgrVars
    /\ UNCHANGED <<call, reg, app>>
    /\ UNCHANGED <<cfg, status>>
    /\ UNCHANGED loopVars

(* resync-source: clear_pending_for_source, then ingest_source_once, which *)
(* polls the source only when it is enabled.                               *)
OpResync ==
    /\ ops < MaxOps
    /\ ops' = ops + 1
    /\ impl = "cli"
    /\ \E s \in Sources :
          videos' = IngestSourcesOnce(ClearPendingForSource(videos, s, now),
                                      IF enabled[s] THEN <<s>> ELSE << >>, now)
    /\ UNCHANGED <<impl, st, now, ticks, enabled, ing, rpc, rsel, lastRetry, pubCalls, touched>>
    /\ UNCHANGED pollVars
    /\ UNCHANGED mgrVars
    /\ UNCHANGED <<call, reg, app>>
    /\ UNCHANGED <<cfg, status>>
    /\ UNCHANGED loopVars

(* retry-failed, for every source or for one *)
OpRetryFailed ==
    /\ ops < MaxOps
    /\ ops' = ops + 1
    /\ impl = "cli"
    /\ \E i \in Ids(videos) : videos[i].status = "failed"
    /\ \E s \in Sources \cup {0} :
          videos' = IF s = 0 THEN RetryFailed(videos, 0, now)
                    ELSE RetryFailedForSource(videos, s, 0, now)
    /\ UNCHANGED <<impl, st, now, ticks, enabled, ing, rpc, rsel, lastRetry, pubCalls, touched>>
    /\ UNCHANGED pollVars
    /\ UNCHANGED mgrVars
    /\ UNCHANGED <<call, reg, app>>
    /\ UNCHANGED <<cfg, status>>
    /\ UNCHANGED loopVars

Interruptible_Blocking(stopped) == TRUE

(* The sleeps test the stop event every 0.2 s: a sleep of whole seconds    *)
(* goes on only while the event is not set.                                *)
Interruptible(stopped) == ~stopped

(* The runner sleeps: the publish and poll intervals in both programs, and *)
(* poll_seconds after a loop error in the command line program (the web    *)
(* loop backs off for 10 s, which is less than any step of the clock).     *)
Tick ==
    /\ ticks < MaxTicks
    /\ rpc = "sleep" \/ (rpc = "backoff" /\ impl = "cli")
    /\ Interruptible(stop)
    /\ \E d \in TickSteps : now' = now + d
    /\ ticks' = ticks + 1
    /\ UNCHANGED <<impl, st, enabled, videos, ing, rpc, rsel, lastRetry, ops, pubCalls, touched>>
    /\ UNCHANGED pollVars
    /\ UNCHANGED mgrVars
    /\ UNCHANGED <<call, reg, app>>
    /\ UNCHANGED <<cfg, status>>
    /\ UNCHANGED loopVars

FullConfig == [nsec |-> TRUE, relays |-> TRUE]

(* What is configured: a stored signing key, at least one enabled relay. *)
Configs == [nsec : BOOLEAN, relays : BOOLEAN]

InitWith(c) ==
    /\ cfg = c
    /\ impl \in {"cli", "web"}
    /\ st \in SettingsChoices
    /\ now = T0
    /\ ticks = 0
    /\ enabled = [s \in Sources |-> TRUE]
    /\ videos = << >>
    /\ ing = IdleIngest
    /\ ops = 0
    /\ rpc = "head"
    /\ rsel = 0
    /\ lastRetry = 0
    /\ pubCalls = 0
    /\ touched = {}
    /\ srcs = [s \in Sources |-> FeedOnlySource]
    /\ up = [s \in Sources |-> Listing(s)]
    /\ lastOp = NoOp
    /\ stop = FALSE
    /\ stopAt = "never"
    /\ loopErrors = 0
    /\ status = "stopped"
    /\ mgr = 1
    /\ loop2 = NoLoop
    /\ call = NoCall
    /\ reg = EmptyRegistry
    /\ app = AppStarted(impl)

Init == InitWith(FullConfig)

Next ==
    \/ RunnerBegin
    \/ RunnerIngest
    \/ RunnerRateCheck
    \/ RunnerSelect
    \/ RunnerPublish
    \/ RunnerBookkeeping
    \/ RunnerSleep
    \/ OpSetSourceEnabled
    \/ OpRefresh
    \/ OpResync
    \/ OpRetryFailed
    \/ Tick

Spec == Init /\ [][Next]_vars

(* ------------------------- the loop and its end ------------------------ *)
(* The runner loop on its own, with the default settings, the stop event   *)
(* and the exceptions that reach its outermost level.  The loop is a       *)
(* thread that keeps being scheduled until it returns.                     *)
RunnerStep ==
    \/ RunnerBegin
    \/ RunnerIngest
    \/ RunnerRateCheck
    \/ RunnerSelect
    \/ RunnerPublish
    \/ RunnerBookkeeping
    \/ RunnerSleep
    \/ RunnerBackoff
    \/ RunnerExit

LoopInit ==
    /\ Init
    /\ st = [min_interval |-> DefaultMinInterval, max_per_hour |-> DefaultMaxPerHour,
             max_per_day |-> DefaultMaxPerDay]

LoopNext ==
    \/ RunnerStep
    \/ RunnerRaise
    \/ RunnerInterrupt
    \/ SetStop
    \/ Tick

LoopSpec == LoopInit /\ [][LoopNext]_vars /\ WF_vars(RunnerStep)

(* The loop under every configuration of signing key and relays, with the  *)
(* default settings.                                                       *)
ConfigInit ==
    /\ \E c \in Configs : InitWith(c)
    /\ st = [min_interval |-> DefaultMinInterval, max_per_hour |-> DefaultMaxPerHour,
             max_per_day |-> DefaultMaxPerDay]

ConfigNext ==
    \/ RunnerBegin
    \/ RunnerIngest
    \/ RunnerRateCheck
    \/ RunnerSelect
    \/ RunnerPublish
    \/ RunnerBookkeeping
    \/ RunnerSleep
    \/ Tick

ConfigSpec == ConfigInit /\ [][ConfigNext]_vars

(* The web backend with its manager: the loop of the first runner, stop    *)
(* and start of the background task, the loop of the second runner.        *)
ManagerInit ==
    /\ Init
    /\ impl = "web"
    /\ st = [min_interval |-> DefaultMinInterval, max_per_hour |-> DefaultMaxPerHour,
             max_per_day |-> DefaultMaxPerDay]

ManagerNext ==
    \/ RunnerBegin
    \/ RunnerIngest
    \/ RunnerRateCheck
    \/ RunnerSelect
    \/ RunnerPublish
    \/ RunnerBookkeeping
    \/ RunnerSleep
    \/ RunnerExit
    \/ StartBackgroundTask
    \/ StopBackgroundTask
    \/ Runner2Begin
    \/ Runner2Select
    \/ Runner2Publish
    \/ Runner2Sleep

ManagerSpec == ManagerInit /\ [][ManagerNext]_vars

(* ------------------------ store-level behaviours ----------------------- *)
(* The polls and the queue commands as single calls on one connection, in  *)
(* any order.                                                              *)
StoreTickSteps == {RetryCheckEvery, 2 * RetryFailedAfter}

(* Upstream supplies the published timestamp of the entry of source 2. *)
StoreUpstream ==
    /\ up[2] = Listing(2)
    /\ up' = [up EXCEPT ![2] = << [key |-> 1, ts |-> 30] >>]
    /\ lastOp' = [NoOp EXCEPT !.kind = "upstream", !.t = now]
    /\ UNCHANGED <<now, ticks, videos, srcs>>
    /\ UNCHANGED runVars

(* What the server returns for the catalogue: the API with                 *)
(* sort=-publishedAt and the feed list the newest entry first.             *)
NewestFirst(catalogue) ==
    [i \in 1 .. Len(catalogue) |-> catalogue[Len(catalogue) + 1 - i]]

Reversed_AsListed(list) == list

(* list(reversed(vids)) in _ingest_source, list(reversed(entries)) in      *)
(* parse_rss                                                               *)
Reversed(list) == [i \in 1 .. Len(list) |-> list[Len(list) + 1 - i]]

(* _ingest_source for one source *)
StorePoll ==
    /\ \E s \in Sources :
       \E apiRes \in (IF srcs[s].api THEN {"fail", "empty", "items"} ELSE {"none"}) :
       \E feedRes \in (IF srcs[s].rss THEN {"fail", "ok"} ELSE {"none"}) :
          LET r == PollSource(videos, srcs[s], s, apiRes, feedRes,
                              Reversed(NewestFirst(up[s])), now)
          IN  /\ videos' = r.videos
              /\ srcs' = [srcs EXCEPT ![s] = r.src]
              /\ lastOp' = [kind |-> "poll", s |-> s, api |-> apiRes,
                            feed |-> feedRes, older |-> 0,
                            ret |-> Len(r.videos) - Len(videos), t |-> now,
                            again |-> /\ lastOp.kind = "poll" /\ lastOp.s = s
                                      /\ lastOp.t = now
                                      /\ lastOp.feed = "ok" /\ feedRes = "ok"
                                      /\ ~srcs[s].api]
    /\ UNCHANGED <<now, ticks, up>>
    /\ UNCHANGED runVars

(* One publish attempt on the head of the queue: mark_posted or            *)
(* mark_failed.                                                            *)
StorePublish ==
    /\ NextPending(videos, enabled) # 0
    /\ \E ok \in BOOLEAN :
          videos' = IF ok THEN MarkPosted(videos, NextPending(videos, enabled),
                                          NextPending(videos, enabled), now)
                    ELSE MarkFailed(videos, NextPending(videos, enabled),
                                    "publish failed", now)
    /\ lastOp' = [NoOp EXCEPT !.kind = "publish", !.t = now]
    /\ UNCHANGED <<now, ticks, srcs, up>>
    /\ UNCHANGED runVars

StoreRetryFailed ==
    /\ impl = "cli"
    /\ \E older \in {0, RetryFailedAfter} :
          /\ videos' = RetryFailed(videos, older, now)
          /\ lastOp' = [NoOp EXCEPT !.kind = "retry", !.older = older, !.t = now,
                                    !.ret = RetryFailedCount(videos, older, now)]
    /\ UNCHANGED <<now, ticks, srcs, up>>
    /\ UNCHANGED runVars

StoreClearPending ==
    /\ impl = "cli"
    /\ \E s \in Sources :
          /\ videos' = ClearPendingForSource(videos, s, now)
          /\ lastOp' = [NoOp EXCEPT !.kind = "clear", !.s = s, !.t = now,
                                    !.ret = ClearPendingCount(videos, s)]
    /\ UNCHANGED <<now, ticks, srcs, up>>
    /\ UNCHANGED runVars

StoreTick ==
    /\ ticks < MaxStoreTicks
    /\ \E d \in StoreTickSteps : now' = now + d
    /\ ticks' = ticks + 1
    /\ UNCHANGED <<videos, srcs, up, lastOp>>
    /\ UNCHANGED runVars

StoreIdle ==
    /\ st = [min_interval |-> DefaultMinInterval, max_per_hour |-> DefaultMaxPerHour,
             max_per_day |-> DefaultMaxPerDay]
    /\ now = T0
    /\ ticks = 0
    /\ enabled = [s \in Sources |-> TRUE]
    /\ ing = IdleIngest
    /\ ops = 0
    /\ rpc = "head"
    /\ rsel = 0
    /\ lastRetry = 0
    /\ pubCalls = 0
    /\ touched = {}
    /\ up = [s \in Sources |-> Listing(s)]
    /\ lastOp = NoOp
    /\ stop = FALSE
    /\ stopAt = "never"
    /\ loopErrors = 0
    /\ status = "stopped"
    /\ mgr = 1
    /\ loop2 = NoLoop
    /\ call = NoCall
    /\ reg = EmptyRegistry
    /\ app = AppStarted(impl)
    /\ cfg = FullConfig

(* Polls of every configuration of source 1, within one second, on a       *)
(* store whose videos are published and cancelled in between.              *)
PollInit ==
    /\ impl \in {"cli", "web"}
    /\ srcs \in {f \in [Sources -> SourceConfigs] : f[2] = FeedOnlySource}
    /\ videos = << >>
    /\ StoreIdle

PollNext ==
    \/ StoreUpstream
    \/ StorePoll
    \/ StorePublish
    \/ StoreClearPending

PollSpec == PollInit /\ [][PollNext]_vars

(* The queue commands of the command line program, with time passing       *)
(* between the calls, on the store that ingest_sources_once leaves for two *)
(* feed-only sources.                                                      *)
QueueInit ==
    /\ impl = "cli"
    /\ LET r1 == PollSource(<< >>, FeedOnlySource, 1, "none", "ok", Listing(1), T0)
           r2 == PollSource(r1.videos, FeedOnlySource, 2, "none", "ok", Listing(2), T0)
       IN  /\ videos = r2.videos
           /\ srcs = [s \in Sources |-> IF s = 1 THEN r1.src ELSE r2.src]
    /\ StoreIdle

QueueNext ==
    \/ StorePublish
    \/ StoreRetryFailed
    \/ StoreClearPending
    \/ StoreTick

QueueSpec == QueueInit /\ [][QueueNext]_vars

(* ------------------------- URL canonicalisation ------------------------ *)
(* A URL text is  scheme "://" host [":" port] path ["?" query]            *)
(* ["#" fragment]; two texts are the same string exactly when they agree   *)
(* in every part, so a text is kept as the record of its parts in the      *)
(* spelling of the text: the parts urlparse splits it into and urlunparse  *)
(* joins again.  A path is the sequence of its slashes and segments.  A    *)
(* text without "://" has the empty scheme and the empty host.             *)
MaxPathLen == 3

HttpPort == 80
HttpsPort == 443
OtherPort == 8080

UrlSchemes == {"HTTPS", "https", "HTTP", "http", "WSS", "wss", "ws", "ftp", ""}
UrlHosts == {"X.COM", "x.com", ""}
UrlPorts == {NULL, HttpPort, HttpsPort, OtherPort}
PathChars == {"/", "a"}

RECURSIVE SeqsUpTo(_, _)
SeqsUpTo(S, n) ==
    IF n = 0 THEN {<< >>}
    ELSE LET shorter == SeqsUpTo(S, n - 1)
         IN  shorter \cup {Append(p, c) : p \in shorter, c \in S}

(* The path of a text with a host is empty or starts with a slash. *)
UrlPaths == {p \in SeqsUpTo(PathChars, MaxPathLen) : p = << >> \/ p[1] = "/"}

UrlTexts ==
    {u \in [scheme : UrlSchemes, host : UrlHosts, port : UrlPorts,
            path : UrlPaths, query : {"", "q=1"}, fragment : {"", "f"}] :
        /\ (u.scheme = "") = (u.host = "")
        /\ u.host = "" => u.port = NULL}

(* str.lower() on the spellings above. *)
Lower(t) ==
    CASE t = "HTTPS" -> "https"
      [] t = "HTTP" -> "http"
      [] t = "WSS" -> "wss"
      [] t = "X.COM" -> "x.com"
      [] OTHER -> t

(* path.rstrip("/") *)
RECURSIVE RStripSlash(_)
RStripSlash(p) ==
    IF p # << >> /\ p[Len(p)] = "/" THEN RStripSlash(SubSeq(p, 1, Len(p) - 1)) ELSE p

Raised == [err |-> TRUE, url |-> NullUrl]

DefaultPort(scheme, port) ==
    \/ scheme \in {"https", "wss"} /\ port = HttpsPort
    \/ scheme \in {"http", "ws"} /\ port = HttpPort

(* path = p.path or "/"; a trailing slash is stripped from any other path. *)
NormalisedPath(path) ==
    LET p == IF path = << >> THEN <<"/">> ELSE path
    IN  IF p # <<"/">> /\ p[Len(p)] = "/" THEN RStripSlash(p) ELSE p

(* UrlNormaliser._normalise_url *)
NormaliseUrl(u) ==
    IF u.scheme = "" \/ u.host = "" THEN Raised
    ELSE LET scheme == Lower(u.scheme)
             port == IF DefaultPort(scheme, u.port) THEN NULL ELSE u.port
         IN  [err |-> FALSE,
              url |-> [scheme |-> scheme, host |-> Lower(u.host), port |-> port,
                       path |-> NormalisedPath(u.path), query |-> u.query,
                       fragment |-> ""]]

(* normalise_http_url, normalise_feed_url and normalise_relay_url *)
NormaliseKind(kind, u) ==
    LET r == NormaliseUrl(u)
        allowed == IF kind = "relay" THEN {"wss", "ws"} ELSE {"https", "http"}
    IN  IF r.err \/ r.url.scheme \notin allowed THEN Raised ELSE r

(* Everything but the record of the call. *)
pipeVars == <<impl, st, now, ticks, enabled, videos, ing,
              rpc, rsel, lastRetry, ops, pubCalls, touched,
              srcs, up, lastOp, stop, stopAt, loopErrors, cfg, status, mgr, loop2, reg, app>>

(* One text is canonicalised in a behaviour, then its canonical form. *)
Normalised(kind, u, again) ==
    [f |-> "normalise", kind |-> kind, arg |-> u, ret |-> NormaliseKind(kind, u),
     again |-> again]

NormaliseHttpUrl ==
    /\ call = NoCall
    /\ \E u \in UrlTexts : call' = Normalised("http", u, FALSE)
    /\ UNCHANGED pipeVars

NormaliseFeedUrl ==
    /\ call = NoCall
    /\ \E u \in UrlTexts : call' = Normalised("feed", u, FALSE)
    /\ UNCHANGED pipeVars

NormaliseRelayUrl ==
    /\ call = NoCall
    /\ \E u \in UrlTexts : call' = Normalised("relay", u, FALSE)
    /\ UNCHANGED pipeVars

(* The canonical form of a call is canonicalised again. *)
NormaliseAgain ==
    /\ call.f = "normalise" /\ ~call.again /\ ~call.ret.err
    /\ call' = Normalised(call.kind, call.ret.url, TRUE)
    /\ UNCHANGED pipeVars

UrlInit == Init

UrlNext ==
    \/ NormaliseHttpUrl
    \/ NormaliseFeedUrl
    \/ NormaliseRelayUrl
    \/ NormaliseAgain

UrlSpec == UrlInit /\ [][UrlNext]_vars

(* ----------------------- relays and sources by URL --------------------- *)
MaxRegOps == 4

Text(scheme, host, port, path) ==
    [scheme |-> scheme, host |-> host, port |-> port, path |-> path,
     query |-> "", fragment |-> ""]

(* The URLs an operator types: spellings of the same relay, feed and       *)
(* channel, other ones, and one the normaliser rejects.                    *)
RelayTexts ==
    {Text("wss", "x.com", NULL, <<"/">>), Text("WSS", "X.COM", HttpsPort, << >>),
     Text("wss", "x.com", NULL, <<"/", "/">>), Text("wss", "x.com", NULL, <<"/", "a", "/">>),
     Text("https", "x.com", NULL, <<"/">>)}

FeedTexts ==
    {Text("https", "x.com", NULL, <<"/", "a">>), Text("HTTPS", "X.COM", HttpsPort, <<"/", "a", "/">>),
     Text("http", "x.com", NULL, <<"/", "a">>), Text("wss", "x.com", NULL, <<"/", "a">>)}

ChannelTexts ==
    {Text("https", "x.com", NULL, <<"/", "c", "/", "chan">>),
     Text("HTTPS", "X.COM", HttpsPort, <<"/", "video-channels", "/", "chan", "/", "videos", "/">>),
     Text("https", "x.com", NULL, <<"/", "a", "/", "other">>),
     Text("https", "x.com", NULL, <<"/">>)}

(* path[: -len("/videos")] when the path ends with "/videos" *)
DropVideos(p) ==
    IF Len(p) >= 2 /\ p[Len(p)] = "videos" /\ p[Len(p) - 1] = "/"
    THEN SubSeq(p, 1, Len(p) - 2) ELSE p

(* path.strip("/").split("/")[-1], the empty string when there is none *)
LastSegment(p) ==
    LET q == RStripSlash(p) IN IF q = << >> THEN "" ELSE q[Len(q)]

(* UrlNormaliser.extract_channel_ref *)
ExtractChannelRef(text) ==
    LET r == NormaliseKind("http", text)
        path == DropVideos(RStripSlash(r.url.path))
        matched == /\ Len(path) = 4 /\ path[1] = "/" /\ path[3] = "/" /\ path[4] # "/"
                   /\ path[2] \in {"c", "video-channels", "accounts"}
        seg == IF matched THEN path[4] ELSE LastSegment(path)
    IN  IF r.err \/ seg = "" THEN [err |-> TRUE, base |-> NullUrl, channel |-> ""]
        ELSE [err |-> FALSE, base |-> [r.url EXCEPT !.path = << >>], channel |-> seg]

Wrote(r, op, arg, id, ret, raised) ==
    [r EXCEPT !.n = @ + 1,
              !.last = [op |-> op, arg |-> arg, id |-> id, ret |-> ret, raised |-> raised]]

(* UNIQUE on relay_url alone: the table without uq_relays_relay_url_norm. *)
RelayConflict_RawOnly(rows, skip, raw, norm) ==
    \E i \in DOMAIN rows \ skip : rows[i].raw = raw

(* relay_url UNIQUE and uq_relays_relay_url_norm, for a row written in     *)
(* place of the rows skip                                                  *)
RelayConflict(rows, skip, raw, norm) ==
    \E i \in DOMAIN rows \ skip : rows[i].raw = raw \/ rows[i].norm = norm

(* uq_sources_rss and uq_sources_api; a NULL column never conflicts *)
SourceConflict(rows, skip, rss, base, chan) ==
    \E i \in DOMAIN rows \ skip :
        \/ rss # NullUrl /\ rows[i].rss = rss
        \/ base # NullUrl /\ chan # "" /\ rows[i].base = base /\ rows[i].chan = chan

IdOf(rows, found) == IF found = {} THEN 0 ELSE rows[CHOOSE i \in found : TRUE].id

Without(rows, gone) == SelectSeq(rows, LAMBDA row : row.id \notin gone)

(* Store.add_relay *)
AddRelay(r, text) ==
    LET nr == NormaliseKind("relay", text)
        rows == IF RelayConflict(r.relays, {}, text, nr.url) THEN r.relays
                ELSE Append(r.relays, [id |-> r.nextRelay, raw |-> text, norm |-> nr.url])
        found == {i \in DOMAIN rows : rows[i].norm = nr.url}
    IN  IF nr.err THEN Wrote(r, "add_relay", text, 0, 0, TRUE)
        ELSE Wrote([r EXCEPT !.relays = rows,
                             !.nextRelay = IF rows = r.relays THEN @ ELSE @ + 1],
                   "add_relay", text, 0, IdOf(rows, found), found = {})

(* Store.remove_relay: by id, or in the command line program by URL *)
RemoveRelay(r, id) ==
    LET gone == {r.relays[i].id : i \in {j \in DOMAIN r.relays : r.relays[j].id = id}}
    IN  Wrote([r EXCEPT !.relays = Without(@, gone)], "remove_relay", NullUrl, id,
              Cardinality(gone), FALSE)

RemoveRelayByUrl(r, text) ==
    LET nr == NormaliseKind("relay", text)
        gone == {r.relays[i].id : i \in {j \in DOMAIN r.relays : r.relays[j].norm = nr.url}}
    IN  IF nr.err THEN Wrote(r, "remove_relay", text, 0, 0, TRUE)
        ELSE Wrote([r EXCEPT !.relays = Without(@, gone)], "remove_relay", text, 0,
                   Cardinality(gone), FALSE)

(* Store.update_relay_url of the command line program: the rows sel are    *)
(* rewritten; a UNIQUE conflict raises sqlite3.IntegrityError and the      *)
(* statement changes nothing.                                              *)
UpdateRelayRows(r, sel, text, id, arg) ==
    LET nr == NormaliseKind("relay", text)
        clash == sel # {} /\ (RelayConflict(r.relays, sel, text, nr.url) \/ Cardinality(sel) > 1)
        rows == [i \in DOMAIN r.relays |->
                    IF i \in sel THEN [r.relays[i] EXCEPT !.raw = text, !.norm = nr.url]
                    ELSE r.relays[i]]
    IN  IF nr.err \/ clash THEN Wrote(r, "update_relay_url", arg, id, 0, TRUE)
        ELSE Wrote([r EXCEPT !.relays = rows], "update_relay_url", arg, id,
                   Cardinality(sel), FALSE)

UpdateRelayUrl(r, id, text) ==
    UpdateRelayRows(r, {i \in DOMAIN r.relays : r.relays[i].id = id}, text, id, text)

UpdateRelayUrlByUrl(r, old, text) ==
    LET no == NormaliseKind("relay", old)
    IN  IF no.err THEN Wrote(r, "update_relay_url", text, 0, 0, TRUE)
        ELSE UpdateRelayRows(r, {i \in DOMAIN r.relays : r.relays[i].norm = no.url},
                             text, 0, text)

(* Store.add_rss_source *)
AddRssSource(r, text) ==
    LET nr == NormaliseKind("feed", text)
        rows == IF SourceConflict(r.sources, {}, nr.url, NullUrl, "") THEN r.sources
                ELSE Append(r.sources, [id |-> r.nextSource, rss |-> nr.url,
                                        base |-> NullUrl, chan |-> ""])
        found == {i \in DOMAIN rows : rows[i].rss = nr.url}
    IN  IF nr.err THEN Wrote(r, "add_rss_source", text, 0, 0, TRUE)
        ELSE Wrote([r EXCEPT !.sources = rows,
                             !.nextSource = IF rows = r.sources THEN @ ELSE @ + 1],
                   "add_rss_source", text, 0, IdOf(rows, found), found = {})

(* Store.add_channel_source *)
AddChannelSource(r, text) ==
    LET ref == ExtractChannelRef(text)
        base == NormaliseKind("http", ref.base)
        rows == IF SourceConflict(r.sources, {}, NullUrl, base.url, ref.channel) THEN r.sources
                ELSE Append(r.sources, [id |-> r.nextSource, rss |-> NullUrl,
                                        base |-> base.url, chan |-> ref.channel])
        found == {i \in DOMAIN rows : rows[i].base = base.url /\ rows[i].chan = ref.channel}
    IN  IF ref.err \/ base.err THEN Wrote(r, "add_channel_source", text, 0, 0, TRUE)
        ELSE Wrote([r EXCEPT !.sources = rows,
                             !.nextSource = IF rows = r.sources THEN @ ELSE @ + 1],
                   "add_channel_source", text, 0, IdOf(rows, found), found = {})

(* Store.remove_source *)
RemoveSource(r, id) ==
    LET gone == {r.sources[i].id : i \in {j \in DOMAIN r.sources : r.sources[j].id = id}}
    IN  Wrote([r EXCEPT !.sources = Without(@, gone)], "remove_source", NullUrl, id,
              Cardinality(gone), FALSE)

(* An UPDATE of the row id of sources to the given URL columns. *)
UpdateSource(r, op, id, text, rss, base, chan) ==
    LET sel == {i \in DOMAIN r.sources : r.sources[i].id = id}
        rows == [i \in DOMAIN r.sources |->
                    IF i \in sel THEN [id |-> id, rss |-> rss, base |-> base, chan |-> chan]
                    ELSE r.sources[i]]
    IN  IF sel # {} /\ SourceConflict(r.sources, sel, rss, base, chan)
        THEN Wrote(r, op, text, id, 0, TRUE)
        ELSE Wrote([r EXCEPT !.sources = rows], op, text, id, Cardinality(sel), FALSE)

SourceRow(r, id) ==
    LET sel == {i \in DOMAIN r.sources : r.sources[i].id = id}
    IN  IF sel = {} THEN [id |-> id, rss |-> NullUrl, base |-> NullUrl, chan |-> ""]
        ELSE r.sources[CHOOSE i \in sel : TRUE]

(* Store.set_source_rss and Store.clear_source_rss *)
SetSourceRss(r, id, text) ==
    LET nr == NormaliseKind("feed", text)
        row == SourceRow(r, id)
    IN  IF nr.err THEN Wrote(r, "set_source_rss", text, id, 0, TRUE)
        ELSE UpdateSource(r, "set_source_rss", id, text, nr.url, row.base, row.chan)

ClearSourceRss(r, id) ==
    LET row == SourceRow(r, id)
    IN  UpdateSource(r, "clear_source_rss", id, NullUrl, NullUrl, row.base, row.chan)

(* Store.set_source_channel and Store.clear_source_channel *)
SetSourceChannel(r, id, text) ==
    LET ref == ExtractChannelRef(text)
        base == NormaliseKind("http", ref.base)
        row == SourceRow(r, id)
    IN  IF ref.err \/ base.err THEN Wrote(r, "set_source_channel", text, id, 0, TRUE)
        ELSE UpdateSource(r, "set_source_channel", id, text, row.rss, base.url, ref.channel)

ClearSourceChannel(r, id) ==
    LET row == SourceRow(r, id)
    IN  UpdateSource(r, "clear_source_channel", id, NullUrl, row.rss, NullUrl, "")

(* Everything but the two tables. *)
regFrame == <<impl, st, now, ticks, enabled, videos, ing,
              rpc, rsel, lastRetry, ops, pubCalls, touched,
              srcs, up, lastOp, stop, stopAt, loopErrors, cfg, status, mgr, loop2, call, app>>

RelayIds == 1 .. MaxRegOps
SourceIds == 1 .. MaxRegOps

RegAddRelay ==
    /\ reg.n < MaxRegOps
    /\ \E text \in RelayTexts : reg' = AddRelay(reg, text)
    /\ UNCHANGED regFrame

RegRemoveRelay ==
    /\ reg.n < MaxRegOps
    /\ \/ \E id \in RelayIds : reg' = RemoveRelay(reg, id)
       \/ impl = "cli" /\ \E text \in RelayTexts : reg' = RemoveRelayByUrl(reg, text)
    /\ UNCHANGED regFrame

RegUpdateRelayUrl ==
    /\ reg.n < MaxRegOps
    /\ impl = "cli"
    /\ \E text \in RelayTexts :
          \/ \E id \in RelayIds : reg' = UpdateRelayUrl(reg, id, text)
          \/ \E old \in RelayTexts : reg' = UpdateRelayUrlByUrl(reg, old, text)
    /\ UNCHANGED regFrame

RegAddRssSource ==
    /\ reg.n < MaxRegOps
    /\ \E text \in FeedTexts : reg' = AddRssSource(reg, text)
    /\ UNCHANGED regFrame

RegAddChannelSource ==
    /\ reg.n < MaxRegOps
    /\ \E text \in ChannelTexts : reg' = AddChannelSource(reg, text)
    /\ UNCHANGED regFrame

RegRemoveSource ==
    /\ reg.n < MaxRegOps
    /\ \E id \in SourceIds : reg' = RemoveSource(reg, id)
    /\ UNCHANGED regFrame

RegSetSourceRss ==
    /\ reg.n < MaxRegOps
    /\ impl = "cli"
    /\ \E id \in SourceIds :
          \/ \E text \in FeedTexts : reg' = SetSourceRss(reg, id, text)
          \/ reg' = ClearSourceRss(reg, id)
    /\ UNCHANGED regFrame

RegSetSourceChannel ==
    /\ reg.n < MaxRegOps
    /\ impl = "cli"
    /\ \E id \in SourceIds :
          \/ \E text \in ChannelTexts : reg' = SetSourceChannel(reg, id, text)
          \/ reg' = ClearSourceChannel(reg, id)
    /\ UNCHANGED regFrame

RegInit ==
    /\ Init
    /\ st = [min_interval |-> DefaultMinInterval, max_per_hour |-> DefaultMaxPerHour,
             max_per_day |-> DefaultMaxPerDay]

RegNext ==
    \/ RegAddRelay
    \/ RegRemoveRelay
    \/ RegUpdateRelayUrl
    \/ RegAddRssSource
    \/ RegAddChannelSource
    \/ RegRemoveSource
    \/ RegSetSourceRss
    \/ RegSetSourceChannel

RegSpec == RegInit /\ [][RegNext]_vars

(* --------------------------- media selection --------------------------- *)
(* A file of the API's video object, from "files" and then from the files  *)
(* of each streaming playlist: its URL, resolution.height and size (0 when *)
(* absent), and whether it passes the test for an http URL that names mp4  *)
(* in the URL or the mime type.                                            *)
MaxFiles == 3

PreferredHeight == 720

FileUrls == {"a.mp4", "b.mp4", "c.mp4"}
FileHeights == {0, 480, PreferredHeight, 1080, 2160}
FileSizes == {1, 2}
NoUrl == "none"

Files == [url : FileUrls, height : FileHeights, size : FileSizes, mp4 : BOOLEAN]

FileLists ==
    {fs \in UNION {[1 .. n -> Files] : n \in 0 .. MaxFiles} :
        \A i, j \in DOMAIN fs : i # j => fs[i].url # fs[j].url}

(* The first element of a list sorted by a key with Python's stable sort:  *)
(* the earliest element of the list that no element precedes in the order. *)
FirstSorted(cs, Precedes(_, _)) ==
    cs[CHOOSE i \in DOMAIN cs :
          /\ \A j \in DOMAIN cs : ~Precedes(cs[j], cs[i])
          /\ \A j \in 1 .. (i - 1) : Precedes(cs[j], cs[i]) \/ Precedes(cs[i], cs[j])]

(* Tuple comparison on (height, size). *)
HeightSizeLess(a, b) ==
    a.height < b.height \/ (a.height = b.height /\ a.size < b.size)

HeightSizeGreater(a, b) == HeightSizeLess(b, a)

SizeGreater(a, b) == a.size > b.size

(* key (height <= 720, height, size), reverse=True; False < True *)
WebKeyGreater(a, b) ==
    LET ua == a.height <= PreferredHeight
        ub == b.height <= PreferredHeight
    IN  (ua /\ ~ub) \/ (ua = ub /\ HeightSizeGreater(a, b))

Candidates(files) == SelectSeq(files, LAMBDA f : f.mp4)

(* PeerTubeClient._pick_best_mp4_url of the command line program *)
CliPickBestMp4(files) ==
    LET candidates == Candidates(files)
        with_height == SelectSeq(candidates, LAMBDA c : c.height > 0)
        under == SelectSeq(with_height, LAMBDA c : c.height <= PreferredHeight)
    IN  IF candidates = << >> THEN NoUrl
        ELSE IF with_height # << >>
             THEN IF under # << >> THEN FirstSorted(under, HeightSizeGreater).url
                  ELSE FirstSorted(with_height, HeightSizeLess).url
             ELSE FirstSorted(candidates, SizeGreater).url

(* PeerTubeClient._pick_best_mp4_url of the web backend *)
WebPickBestMp4(files) ==
    LET candidates == Candidates(files)
    IN  IF candidates = << >> THEN NoUrl
        ELSE FirstSorted(candidates, WebKeyGreater).url

PickBestMp4Url(files) ==
    IF impl = "cli" THEN CliPickBestMp4(files) ELSE WebPickBestMp4(files)

Perms(n) == {p \in [1 .. n -> 1 .. n] : \A i, j \in 1 .. n : i # j => p[i] # p[j]}

Picked(files, again, before) ==
    [f |-> "pick", arg |-> files, ret |-> PickBestMp4Url(files), again |-> again,
     before |-> before]

PickBestMp4 ==
    /\ call = NoCall
    /\ \E files \in FileLists : call' = Picked(files, FALSE, NoUrl)
    /\ UNCHANGED pipeVars

(* The same files in another order. *)
PickReordered ==
    /\ call.f = "pick" /\ ~call.again
    /\ \E p \in Perms(Len(call.arg)) :
          /\ \E i \in DOMAIN p : p[i] # i
          /\ call' = Picked([i \in DOMAIN call.arg |-> call.arg[p[i]]], TRUE, call.ret)
    /\ UNCHANGED pipeVars

PickInit ==
    /\ Init
    /\ st = [min_interval |-> DefaultMinInterval, max_per_hour |-> DefaultMaxPerHour,
             max_per_day |-> DefaultMaxPerDay]

PickNext ==
    \/ PickBestMp4
    \/ PickReordered

PickSpec == PickInit /\ [][PickNext]_vars

(* ------------------------------ event tags ----------------------------- *)
(* The columns of a pending video that _build_tags reads; a column that is *)
(* NULL or empty holds "".  watch_url is NOT NULL.                         *)
Payloads ==
    [watch_url : {"watch"}, channel_url : {"", "chanurl"}, title : {"", "Title"},
     channel_name : {"", "Chan"}, account_name : {"", "Acct"},
     direct_url : {"", "mp4url"}, hls_url : {"", "hlsurl"},
     peertube_instance : {"", "instance"}]

(* A tag is a key and a value; the value of the alt tag is the text        *)
(* "PeerTube video: <title> by <author>", kept as its two variable parts.  *)
Tag(k, v) == [k |-> k, v |-> v, by |-> ""]

AltTag(title, author) == [k |-> "alt", v |-> title, by |-> author]

When(cond, tags) == IF cond THEN tags ELSE << >>

(* channel_name or account_name or "unknown" *)
AuthorOf(p) ==
    IF p.channel_name # "" THEN p.channel_name
    ELSE IF p.account_name # "" THEN p.account_name ELSE "unknown"

MediaTags(p) ==
    IF p.direct_url # "" THEN <<Tag("url", p.direct_url), Tag("m", "video/mp4")>>
    ELSE IF p.hls_url # "" THEN <<Tag("url", p.hls_url), Tag("m", "application/x-mpegURL")>>
    ELSE << >>

(* The tags both implementations build the same way. *)
CommonTags(p) ==
    <<Tag("t", "video"), Tag("t", "peertube")>>
    \o MediaTags(p)
    \o When(p.watch_url # "", <<Tag("r", p.watch_url)>>)
    \o When(p.channel_url # "", <<Tag("r", p.channel_url)>>)
    \o When(p.title # "", <<AltTag(p.title, AuthorOf(p))>>)
    \o When(p.peertube_instance # "", <<Tag("peertube:instance", p.peertube_instance)>>)

(* NostrPublisher._build_tags of the command line program *)
CliBuildTags(p) ==
    CommonTags(p)
    \o When(p.channel_name # "", <<Tag("peertube:author", p.channel_name)>>)
    \o When(p.channel_url # "", <<Tag("peertube:channel", p.channel_url)>>)

(* NostrPublisher._build_tags of the web backend *)
WebBuildTags(p) == CommonTags(p)

TagsBuilt(p) == IF impl = "cli" THEN CliBuildTags(p) ELSE WebBuildTags(p)

BuildTags ==
    /\ call = NoCall
    /\ \E p \in Payloads :
          call' = [f |-> "tags", arg |-> p, ret |-> TagsBuilt(p)]
    /\ UNCHANGED pipeVars

TagInit ==
    /\ Init
    /\ st = [min_interval |-> DefaultMinInterval, max_per_hour |-> DefaultMaxPerHour,
             max_per_day |-> DefaultMaxPerDay]

TagNext == BuildTags

TagSpec == TagInit /\ [][TagNext]_vars

(* ------------------ settings, API key and setup token ------------------ *)
MaxAppOps == 4

TokenTtl == 300

AppTickSteps == {1, TokenTtl - 1}
SettingValues == {0, 5}

Did(a, op, arg, ok) ==
    [a EXCEPT !.n = @ + 1, !.last = [op |-> op, arg |-> arg, ok |-> ok]]

VerifyApiKey_AnyKey(a, key) == key # 0

(* verify_api_key: the request passes *)
VerifyApiKey(a, key) == key # 0 /\ key = GetApiKey(a)

ValidateSetupToken_NoExpiry(a, token, nowTs) ==
    token # 0 /\ a.token # 0 /\ a.expiry # NULL /\ token = a.token

(* AppManager.validate_setup_token: the condition of its if *)
ValidateSetupToken(a, token, nowTs) ==
    token # 0 /\ a.token # 0 /\ a.expiry # NULL /\ nowTs < a.expiry /\ token = a.token

(* Everything but the settings and the manager's token. *)
appFrame == <<impl, st, ticks, enabled, videos, ing,
              rpc, rsel, lastRetry, ops, pubCalls, touched,
              srcs, up, lastOp, stop, stopAt, loopErrors, cfg, status, mgr, loop2,
              call, reg>>

(* A start of the program: Store.init_schema, and in the web backend       *)
(* AppManager.__init__ with a manager that holds no setup token.           *)
StartUp ==
    /\ app.n < MaxAppOps
    /\ LET a == [app EXCEPT !.settings = InitSchema(@)]
       IN  app' = Did(IF impl = "web"
                      THEN CheckFirstRun([a EXCEPT !.token = 0, !.expiry = NULL])
                      ELSE a,
                      "start", 0, TRUE)
    /\ UNCHANGED <<appFrame, now>>

(* set_setting of a rate limit from the operator's command *)
CliSetSetting ==
    /\ app.n < MaxAppOps
    /\ impl = "cli"
    /\ \E key \in LimitKeys, value \in SettingValues :
          app' = [Did(app, "set", value, TRUE) EXCEPT !.settings = SetSetting(@, key, value)]
    /\ UNCHANGED <<appFrame, now>>

(* A request to an endpoint that depends on verify_api_key. *)
ApiRequest ==
    /\ app.n < MaxAppOps
    /\ impl = "web"
    /\ \E key \in 0 .. (app.keys + 1) :
          IF ~VerifyApiKey(app, key) THEN app' = Did(app, "401", key, FALSE)
          ELSE \/ app' = Did(app, "metrics", key, TRUE)
               \/ app' = Did(RegenerateApiKey(app), "regenerate-key", key, TRUE)
               \/ \E k \in LimitKeys, value \in SettingValues :
                     app' = [Did(app, "settings", key, TRUE)
                                EXCEPT !.settings = SetSetting(@, k, value)]
    /\ UNCHANGED <<appFrame, now>>

(* GET /api/setup/status: get_setup_token while the setup is not complete *)
GetSetupStatus ==
    /\ app.n < MaxAppOps
    /\ impl = "web"
    /\ IF app.settings["setup_complete"] = 1 THEN app' = Did(app, "status", 0, TRUE)
       ELSE app' = [Did(app, "status", app.tokens + 1, TRUE)
                       EXCEPT !.tokens = @ + 1, !.token = app.tokens + 1,
                              !.expiry = now + TokenTtl]
    /\ UNCHANGED <<appFrame, now>>

(* POST /api/setup/complete/{token}: verify_setup_token, then the          *)
(* complete_setup task                                                     *)
MarkSetupComplete ==
    /\ app.n < MaxAppOps
    /\ impl = "web"
    /\ \E token \in 0 .. app.tokens :
          IF ValidateSetupToken(app, token, now)
          THEN app' = [Did(app, "complete", token, TRUE)
                          EXCEPT !.token = 0,
                                 !.settings = SetSetting(@, "setup_complete", 1)]
          ELSE app' = Did(app, "complete", token, FALSE)
    /\ UNCHANGED <<appFrame, now>>

AppTick ==
    /\ app.n < MaxAppOps
    /\ \E d \in AppTickSteps : now' = now + d
    /\ app' = Did(app, "tick", 0, TRUE)
    /\ UNCHANGED appFrame

AppInit ==
    /\ InitWith(FullConfig)
    /\ st = [min_interval |-> DefaultMinInterval, max_per_hour |-> DefaultMaxPerHour,
             max_per_day |-> DefaultMaxPerDay]

AppNext ==
    \/ StartUp
    \/ CliSetSetting
    \/ ApiRequest
    \/ GetSetupStatus
    \/ MarkSetupComplete
    \/ AppTick

AppSpec == AppInit /\ [][AppNext]_vars

(* -------------------- one iteration with fetch failures ---------------- *)
FetchRaises_Uncaught(apiRes, feedRes) == apiRes = "fail" \/ feedRes = "fail"

(* What a failed fetch raises out of _ingest_source: nothing. _get_json    *)
(* returns None from its except branch, and the feed branch runs inside    *)
(* try / except Exception, which calls mark_source_polled.                 *)
FetchRaises(apiRes, feedRes) == FALSE

(* One pass of the source loop of ingest_sources_once: _ingest_source for  *)
(* the next source of the list read at the loop head.                      *)
RunnerPoll ==
    /\ rpc = "ingest"
    /\ ing.q # << >>
    /\ LET s == Head(ing.q)
       IN  \E apiRes \in (IF srcs[s].api THEN {"fail", "empty", "items"} ELSE {"none"}) :
           \E feedRes \in (IF srcs[s].rss THEN {"fail", "ok"} ELSE {"none"}) :
              LET r == PollSource(videos, srcs[s], s, apiRes, feedRes,
                                  Reversed(NewestFirst(up[s])), now)
              IN  IF FetchRaises(apiRes, feedRes)
                  THEN /\ rpc' = AfterLoopError
                       /\ loopErrors' = loopErrors + 1
                       /\ ing' = IdleIngest
                       /\ lastOp' = [NoOp EXCEPT !.kind = "raise", !.s = s,
                                                 !.api = apiRes, !.feed = feedRes,
                                                 !.t = now]
                       /\ UNCHANGED <<videos, srcs>>
                  ELSE /\ videos' = r.videos
                       /\ srcs' = [srcs EXCEPT ![s] = r.src]
                       /\ ing' = [q |-> Tail(ing.q), i |-> 1, ph |-> "check"]
                       /\ lastOp' = [NoOp EXCEPT !.kind = "poll", !.s = s,
                                                 !.api = apiRes, !.feed = feedRes,
                                                 !.ret = Len(r.videos) - Len(videos),
                                                 !.t = now]
                       /\ UNCHANGED <<rpc, loopErrors>>
    /\ UNCHANGED <<impl, st, now, ticks, enabled, rsel, lastRetry, ops, pubCalls,
                   touched, up, stop, stopAt, cfg, status>>
    /\ UNCHANGED mgrVars
    /\ UNCHANGED <<call, reg, app>>

(* One iteration of the loop over every configuration of source 1, with    *)
(* each fetch failing or succeeding.                                       *)
IterInit == PollInit

IterNext ==
    \/ RunnerBegin
    \/ RunnerPoll
    \/ RunnerRateCheck
    \/ RunnerSelect
    \/ RunnerPublish
    \/ RunnerBookkeeping

IterSpec == IterInit /\ [][IterNext]_vars

(* ------------------- the loop left alone, time advancing --------------- *)
(* The days the clock of this behaviour runs for. *)
MaxLiveDays == 4

(* publish_one_pending with a publisher that returns an event id and       *)
(* store calls that do not raise: mark_posted, mark_relay_used, the log    *)
(* line.                                                                   *)
RunnerPublishOk ==
    /\ rpc = "publish"
    /\ pubCalls' = pubCalls + 1
    /\ touched' = touched \cup {rsel}
    /\ videos' = MarkPosted(videos, rsel, rsel, now)
    /\ rpc' = AfterPublish
    /\ status' = StatusAfterPublish
    /\ UNCHANGED <<impl, st, now, ticks, enabled, ing, rsel, lastRetry, ops>>
    /\ UNCHANGED pollVars
    /\ UNCHANGED mgrVars
    /\ UNCHANGED <<call, reg, app>>
    /\ UNCHANGED cfg
    /\ UNCHANGED loopVars

(* The sleep that ends every iteration takes its time: the clock has       *)
(* advanced when the loop is back at its head.                             *)
RunnerSleepFor ==
    /\ rpc = "sleep"
    /\ \E d \in TickSteps :
          now' = IF now < T0 + MaxLiveDays * DayWindow THEN now + d ELSE now
    /\ rpc' = AfterSleep(stop)
    /\ rsel' = 0
    /\ pubCalls' = 0
    /\ touched' = {}
    /\ status' = (IF impl = "cli" THEN "Idle" ELSE status)
    /\ UNCHANGED <<impl, st, ticks, enabled, videos, ing, lastRetry, ops>>
    /\ UNCHANGED pollVars
    /\ UNCHANGED mgrVars
    /\ UNCHANGED <<call, reg, app>>
    /\ UNCHANGED cfg
    /\ UNCHANGED loopVars

(* A signing key and a relay are configured, both limits of posts are      *)
(* positive.                                                               *)
LiveInit ==
    /\ Init
    /\ st.max_per_hour > 0 /\ st.max_per_day > 0

LiveNext ==
    \/ RunnerBegin
    \/ RunnerIngest
    \/ RunnerRateCheck
    \/ RunnerSelect
    \/ RunnerPublishOk
    \/ RunnerSleepFor

LiveSpec == LiveInit /\ [][LiveNext]_vars /\ WF_vars(LiveNext)

(* ============================== claims ================================= *)
Capped(vs, sid, nowTs) ==
    CountPostedSinceForSource(vs, sid, nowTs - DayWindow) >= st.max_per_day

EligiblePending(vs, en, nowTs) ==
    {i \in PendingRows(vs, en) : ~Capped(vs, vs[i].source_id, nowTs)}

(* C1: the video table holds at most one row per (source_id, entry_key),   *)
(* and insert_pending for a pair that is already present returns the       *)
(* table unchanged (status, timestamps and content of the existing row).   *)
C1_OneRowPerEntry ==
    /\ \A i, j \in Ids(videos) :
          (videos[i].source_id = videos[j].source_id
           /\ videos[i].entry_key = videos[j].entry_key) => i = j
    /\ \A s \in Sources : \A k \in 1 .. Len(Listing(s)) :
          VideoExists(videos, s, Listing(s)[k].key)
             => InsertPending(videos, s, Listing(s)[k].key,
                              Listing(s)[k].ts, now) = videos

(* C1 witness: the web runner polls source 1 again in a later iteration;   *)
(* it has just called insert_pending for entry 1, whose row was inserted   *)
(* in an earlier iteration and has been posted since.                      *)
C1_Witness ==
    /\ impl = "web" /\ rpc = "ingest"
    /\ ing.q # << >> /\ Head(ing.q) = 1 /\ ing.i = 2
    /\ \E i \in Ids(videos) :
          /\ videos[i].source_id = 1 /\ videos[i].entry_key = 1
          /\ videos[i].first_seen_ts < now
          /\ videos[i].status = "posted"

(* C2: at every moment the number of posted videos whose posted_ts lies in *)
(* the trailing 3600 seconds is at most max_posts_per_hour.                *)
C2_HourlyCap ==
    CountPostedSince(videos, now - HourWindow) <= st.max_per_hour

(* C3: any two videos the runner has posted (rows that carry a posted_ts)  *)
(* have posted_ts values at least min_publish_interval_seconds apart.      *)
C3_MinInterval ==
    \A i, j \in Ids(videos) :
        (i # j /\ videos[i].posted_ts # NULL /\ videos[j].posted_ts # NULL
         /\ videos[i].posted_ts >= videos[j].posted_ts)
           => videos[i].posted_ts - videos[j].posted_ts >= st.min_interval

(* C4: for every source, the number of its posted videos in the trailing   *)
(* 86400 seconds never exceeds max_posts_per_day_per_source, operator      *)
(* commands between the rate check and the publish included.               *)
C4_DailyCapPerSource ==
    \A s \in Sources :
        CountPostedSinceForSource(videos, s, now - DayWindow) <= st.max_per_day

(* C5: next_pending_eligible never returns a video whose source already    *)
(* has max_per_day or more posted videos in the trailing 86400 seconds,    *)
(* even when that video is first in the queue order.                       *)
C5_EligibleNeverCapped ==
    LET p == NextPendingEligible(videos, enabled, now, st.max_per_day)
    IN  p # 0 => /\ p \in PendingRows(videos, enabled)
                 /\ ~Capped(videos, videos[p].source_id, now)

(* C5 witness: the head of the queue belongs to a capped source and        *)
(* next_pending_eligible returns a video of another source.                *)
C5_Witness ==
    LET p == NextPendingEligible(videos, enabled, now, st.max_per_day)
        h == NextPending(videos, enabled)
    IN  /\ impl = "web" /\ rpc = "publish" /\ rsel = p
        /\ h # 0 /\ p # 0 /\ h # p
        /\ Capped(videos, videos[h].source_id, now)

(* C6: whenever a pending video of an enabled source below its daily cap   *)
(* exists, the runner's selection yields such a video: not none, and not   *)
(* a video of a capped source.                                             *)
C6_CappedSourcesSkipped ==
    EligiblePending(videos, enabled, now) # {}
       => SelectNext(videos, enabled, now) \in EligiblePending(videos, enabled, now)

(* C7: a video is created pending, and every later status change is one of *)
(* pending to posted, pending to failed, failed to pending, pending to     *)
(* cancelled.                                                              *)
C7_AllowedTransitions ==
    [][ \A i \in Ids(videos') :
           IF i \in Ids(videos)
           THEN \/ videos'[i].status = videos[i].status
                \/ <<videos[i].status, videos'[i].status>> \in
                      { <<"pending", "posted">>, <<"pending", "failed">>,
                        <<"failed", "pending">>, <<"pending", "cancelled">> }
           ELSE videos'[i].status = "pending" ]_vars

(* C8: once mark_posted has run, the video stays posted forever.           *)
C8_PostedIsTerminal ==
    [][ \A i \in Ids(videos) :
           videos[i].status = "posted" => videos'[i].status = "posted" ]_vars

(* C9: a video that clear_pending_for_source has moved to cancelled is     *)
(* never afterwards marked posted or failed.                               *)
C9_CancelledNeverPublished ==
    [][ \A i \in Ids(videos) :
           videos[i].status = "cancelled"
              => videos'[i].status \notin {"posted", "failed"} ]_vars

(* C10: in each iteration of the runner loop the publisher is invoked at   *)
(* most once and at most one video changes status to posted or failed.     *)
C10_OnePublishPerIteration ==
    pubCalls <= 1 /\ Cardinality(touched) <= 1

(* C10 witness: the iteration has published one video and sleeps while     *)
(* another pending video of an enabled source below its cap is waiting.    *)
C10_Witness ==
    /\ rpc = "sleep" /\ pubCalls = 1 /\ Cardinality(touched) = 1
    /\ EligiblePending(videos, enabled, now) # {}

(* The published timestamp upstream supplies now for a row, NULL for none. *)
UpstreamTs(row) ==
    LET E == {k \in 1 .. Len(up[row.source_id]) :
                 up[row.source_id][k].key = row.entry_key}
    IN  IF E = {} THEN NULL ELSE up[row.source_id][CHOOSE k \in E : TRUE].ts

(* C11: a poll never changes the status of a row that is already known and *)
(* changes no field of it except published_ts, which it fills in only when *)
(* it was null and upstream supplies a timestamp.                          *)
C11_RepollKeepsRow ==
    [][ lastOp'.kind = "poll" =>
          \A i \in Ids(videos) :
             \/ videos'[i] = videos[i]
             \/ /\ videos[i].published_ts = NULL
                /\ UpstreamTs(videos[i]) # NULL
                /\ videos'[i] = [videos[i] EXCEPT !.published_ts = UpstreamTs(videos[i])] ]_vars

(* C11 witness: a source whose video is posted, failed or cancelled has    *)
(* just been polled from its feed again; the command line program has      *)
(* filled in the published timestamp upstream supplies meanwhile.          *)
C11_Witness ==
    /\ lastOp.kind = "poll" /\ lastOp.feed = "ok" /\ lastOp.ret = 0
    /\ impl = "cli" /\ lastOp.s = 2 /\ up[2] # Listing(2)
    /\ \E i \in Ids(videos) :
          /\ videos[i].source_id = 2
          /\ videos[i].status \in {"posted", "failed", "cancelled"}
          /\ videos[i].first_seen_ts = T0
          /\ videos[i].published_ts = 30

(* C12: for a source with no API reference and a feed URL, a poll that     *)
(* parses the feed sets last_error to null, and polling again immediately  *)
(* with the feed unchanged leaves the video table unchanged.               *)
C12_SecondPollInsertsNothing ==
    [][ (lastOp'.kind = "poll" /\ lastOp'.again) =>
           /\ videos' = videos
           /\ srcs'[lastOp'.s].last_error = NoError ]_vars

(* C13: when the API listing fails and a feed URL is configured, the poll  *)
(* falls through to the feed, and when the feed parses the source's        *)
(* last_error after the poll is null.                                      *)
C13_FallbackClearsError ==
    (lastOp.kind = "poll" /\ lastOp.api = "fail" /\ lastOp.feed = "ok")
       => srcs[lastOp.s].last_error = NoError

(* C14: when the API listing succeeds the poll marks the source polled     *)
(* with last_error null and does not read the feed, also when the listing  *)
(* is empty.                                                               *)
C14_ApiSuccessSkipsFeed ==
    [][ (lastOp'.kind = "poll" /\ lastOp'.api \in {"empty", "items"}) =>
           /\ srcs'[lastOp'.s].last_error = NoError
           /\ srcs'[lastOp'.s].last_polled_ts = now
           /\ lastOp'.api = "empty" => videos' = videos ]_vars

(* C14 witness: a source with an API reference and a feed has been polled, *)
(* the API listing was empty, the feed (which lists entries, and would     *)
(* have raised) was not read: no video, no error.                          *)
C14_Witness ==
    /\ lastOp.kind = "poll" /\ lastOp.api = "empty" /\ lastOp.feed = "fail"
    /\ srcs[lastOp.s].rss /\ up[lastOp.s] # << >>
    /\ videos = << >>
    /\ srcs[lastOp.s].last_error = NoError
    /\ srcs[lastOp.s].last_polled_ts = now

(* C15: when a source has neither a usable API path nor a feed URL (no API *)
(* reference and no feed, or API failure and no feed), the poll marks it   *)
(* polled with a non-null error and inserts no video.                      *)
C15_NoPathRecordsError ==
    [][ (lastOp'.kind = "poll" /\ ~srcs[lastOp'.s].rss
         /\ (~srcs[lastOp'.s].api \/ lastOp'.api = "fail")) =>
           /\ srcs'[lastOp'.s].last_error # NoError
           /\ srcs'[lastOp'.s].last_polled_ts = now
           /\ videos' = videos ]_vars

(* C15 witness: both cases have happened, source 1 has no feed and its     *)
(* poll has just been recorded with an error.                              *)
C15_Witness ==
    /\ lastOp.kind = "poll" /\ lastOp.s = 1 /\ ~srcs[1].rss
    /\ lastOp.api \in {"fail", "none"}
    /\ srcs[1].last_error \in {"API failed", "No RSS fallback"}
    /\ srcs[1].last_polled_ts = now

(* C16: retry_failed(older) changes to pending exactly the failed videos   *)
(* whose last_attempt_ts is null or older than now - older, returns their  *)
(* count, and leaves every other video untouched.                          *)
C16_RetryFailedFrame ==
    [][ (lastOp'.kind = "retry" /\ now' = now) =>
           /\ Len(videos') = Len(videos)
           /\ \A i \in Ids(videos) :
                 IF videos[i].status = "failed"
                    /\ (videos[i].last_attempt_ts = NULL
                        \/ videos[i].last_attempt_ts < now - lastOp'.older)
                 THEN videos'[i] = [videos[i] EXCEPT !.status = "pending"]
                 ELSE videos'[i] = videos[i]
           /\ lastOp'.ret = Cardinality({i \in Ids(videos') :
                                 videos'[i].status # videos[i].status}) ]_vars

(* C16 witness: retry_failed(3600) has just re-queued one video, last      *)
(* attempted 7200 s ago, and left failed a video attempted since, next to  *)
(* a posted one.                                                           *)
C16_Witness ==
    /\ lastOp.kind = "retry" /\ lastOp.older = RetryFailedAfter /\ lastOp.ret = 1
    /\ lastOp.t = now
    /\ \E i, j, k \in Ids(videos) :
          /\ videos[i].status = "pending"
          /\ videos[i].last_attempt_ts # NULL
          /\ videos[i].last_attempt_ts <= now - 2 * RetryFailedAfter
          /\ videos[j].status = "failed"
          /\ videos[j].last_attempt_ts = now - RetryCheckEvery
          /\ videos[k].status = "posted"

(* C17: clear_pending_for_source(s) changes to cancelled exactly the       *)
(* pending videos of source s, returns their count, and leaves the posted  *)
(* and failed videos of s and every video of every other source untouched. *)
C17_ClearPendingFrame ==
    [][ (lastOp'.kind = "clear" /\ now' = now) =>
           /\ Len(videos') = Len(videos)
           /\ \A i \in Ids(videos) :
                 IF videos[i].source_id = lastOp'.s /\ videos[i].status = "pending"
                 THEN videos'[i] = [videos[i] EXCEPT !.status = "cancelled",
                                       !.error = "cleared by resync",
                                       !.last_attempt_ts = now]
                 ELSE videos'[i] = videos[i]
           /\ lastOp'.ret = Cardinality({i \in Ids(videos') :
                                 videos'[i].status # videos[i].status}) ]_vars

(* C17 witness: clear_pending_for_source(1) has just cancelled a pending   *)
(* video of source 1 while another video of source 1 is posted or failed   *)
(* and source 2 has a pending video.                                       *)
C17_Witness ==
    /\ lastOp.kind = "clear" /\ lastOp.s = 1 /\ lastOp.ret = 1
    /\ lastOp.t = now
    /\ \E i, j, k \in Ids(videos) :
          /\ videos[i].source_id = 1 /\ videos[i].status = "cancelled"
          /\ videos[j].source_id = 1 /\ videos[j].status \in {"posted", "failed"}
          /\ videos[k].source_id = 2 /\ videos[k].status = "pending"

(* The ids the video table can hold: one per entry of the catalogue. *)
AllIds == 1 .. (Len(Listing(1)) + Len(Listing(2)))

(* Video i is failed and its last attempt is older than the retry          *)
(* cooldown.                                                               *)
FailedAndCooled(i) ==
    /\ i \in Ids(videos)
    /\ videos[i].status = "failed"
    /\ (videos[i].last_attempt_ts = NULL
        \/ videos[i].last_attempt_ts < now - RetryFailedAfter)

(* C18: a video whose publish attempt failed and whose last attempt is     *)
(* older than the retry cooldown is eventually moved out of failed by the  *)
(* runner loop itself (its periodic retry_failed), with no operator        *)
(* command, unless the loop has ended.                                     *)
C18_FailedIsRequeued ==
    \A i \in AllIds :
        FailedAndCooled(i) ~> ((i \in Ids(videos) /\ videos[i].status # "failed") \/ Ended)

(* C19: an exception that reaches the outermost level of the loop sends    *)
(* the loop to its back-off and never to its end; from the back-off the    *)
(* loop goes to its head and starts the next iteration unless it is        *)
(* stopped or interrupted; the loop ends as stopped only when the stop     *)
(* event is set.                                                           *)
C19_LoopSurvivesErrors ==
    /\ [][ /\ (loopErrors' # loopErrors => rpc' = "backoff")
           /\ ((rpc = "backoff" /\ rpc' # rpc) => rpc' \in {"head", "interrupted"})
           /\ ((rpc' = "stopped" /\ rpc # "stopped") => stop) ]_vars
    /\ (rpc = "backoff") ~> (rpc = "ingest" \/ Ended)

C19_Witness ==
    /\ loopErrors > 0
    /\ ~stop
    /\ rpc = "publish"

(* C20: once the stop event is set the loop ends, whatever it was doing    *)
(* (sleeping, backing off after an error, ingesting, publishing), and no   *)
(* sleep of the loop goes on after the event is set.                       *)
C20_StopEndsLoop ==
    /\ stop ~> Ended
    /\ [][ stop => now' = now ]_vars

C20_Witness ==
    /\ rpc = "stopped"
    /\ stopAt = "backoff"

(* The step is the first store call of the poll of a source. *)
StartsPoll ==
    /\ rpc = "ingest"
    /\ ing.q # << >>
    /\ ing.i = 1 /\ ing.ph = "check"
    /\ ing' # ing

(* The step is the publisher call of publish_one_pending. *)
StartsPublish == pubCalls' = pubCalls + 1

(* C21: once the stop event is set the loop starts no new work: no step    *)
(* taken with the event set begins the poll of a source or calls the       *)
(* publisher.                                                              *)
C21_NoNewWorkAfterStop ==
    [][ stop => (~StartsPoll /\ ~StartsPublish) ]_vars

(* C22: while no signing key is stored or no relay is enabled, the runner  *)
(* reports waiting-config from its publish branch and goes to sleep, never *)
(* calls the publisher and changes the status of no video; it still polls  *)
(* the sources.                                                            *)
C22_WaitingConfig ==
    [][ ~(cfg.nsec /\ cfg.relays) =>
           /\ ((rpc = "ingest" /\ rpc' # rpc) =>
                   (status' = "waiting-config" /\ rpc' = "sleep"))
           /\ ~StartsPublish
           /\ \A i \in Ids(videos) : videos'[i].status = videos[i].status ]_vars

(* The three waits of the rate limiter for a source. *)
Waits(s) ==
    {WaitInterval(videos, now), WaitHourly(videos, now),
     WaitDailyForSource(videos, s, now)}

(* C23: next_wait of a source is the greatest of the interval wait, the    *)
(* hourly wait and the daily wait of that source; it is 0 while no video   *)
(* is posted, and it is positive in the second of a post when the minimum  *)
(* interval is positive.                                                   *)
C23_NextWaitIsMax ==
    \A s \in Sources :
        /\ NextWait(videos, s, now) \in Waits(s)
        /\ \A w \in Waits(s) : w <= NextWait(videos, s, now)
        /\ (\A i \in Ids(videos) : videos[i].status # "posted")
              => NextWait(videos, s, now) = 0
        /\ (st.min_interval > 0
            /\ \E i \in Ids(videos) :
                  videos[i].status = "posted" /\ videos[i].posted_ts = now)
              => NextWait(videos, s, now) > 0

C23_Witness ==
    /\ rpc = "book"
    /\ videos[rsel].status = "posted" /\ videos[rsel].posted_ts = now
    /\ WaitInterval(videos, now) = DefaultMinInterval
    /\ NextWait(videos, videos[rsel].source_id, now) = DayWindow
    /\ \E s \in Sources : NextWait(videos, s, now) = DefaultMinInterval

(* C24: the video selected for publishing is, among the pending videos of  *)
(* enabled sources that are under the daily cap, the first in the order    *)
(* (published_ts is null, published_ts, first_seen_ts); none only when     *)
(* there is no such video.                                                 *)
C24_SmallestEligibleFirst ==
    SelectNext(videos, enabled, now) = First(videos, EligiblePending(videos, enabled, now))

(* A loop is inside an iteration: past its stop test and before its sleep. *)
Iterating1 == rpc \in {"ingest", "select", "publish", "book"}

Iterating2 == loop2.pc \in {"check", "publish"}

(* C25: start_background_task while a runner is held starts nothing; the   *)
(* loops of two runners are never inside an iteration at the same time,    *)
(* and never hold the same video for the publisher.                        *)
C25_SingleLoop ==
    /\ [](~(Iterating1 /\ Iterating2))
    /\ [](~(rpc = "publish" /\ loop2.pc = "publish" /\ rsel = loop2.sel))
    /\ [][ (lastOp' # lastOp /\ lastOp'.kind = "start" /\ mgr # 0) =>
              (loop2' = loop2 /\ rpc' = rpc /\ mgr' = mgr) ]_vars

(* C26: canonicalising a canonical form returns it unchanged; a canonical  *)
(* form has its scheme and host in lower case, no default port (80 for     *)
(* http and ws, 443 for https and wss) and no trailing slash on a path     *)
(* other than the root.                                                    *)
C26_CanonicalFormIsFixed ==
    /\ (call.f = "normalise" /\ ~call.ret.err) =>
          LET r == call.ret.url
          IN  /\ r.scheme = Lower(call.arg.scheme) /\ Lower(r.scheme) = r.scheme
              /\ r.host = Lower(call.arg.host) /\ Lower(r.host) = r.host
              /\ ~DefaultPort(r.scheme, r.port)
              /\ r.port \in {NULL, call.arg.port}
              /\ (r.path # <<"/">> /\ r.path # << >>) => r.path[Len(r.path)] # "/"
    /\ (call.f = "normalise" /\ call.again) =>
          (~call.ret.err /\ call.ret.url = call.arg)

(* The id of the stored row an add call's URL normalises to, 0 for none. *)
StoredRelay(r, text) ==
    LET nr == NormaliseKind("relay", text)
    IN  IF nr.err THEN 0 ELSE IdOf(r.relays, {i \in DOMAIN r.relays : r.relays[i].norm = nr.url})

StoredFeed(r, text) ==
    LET nr == NormaliseKind("feed", text)
    IN  IF nr.err THEN 0 ELSE IdOf(r.sources, {i \in DOMAIN r.sources : r.sources[i].rss = nr.url})

StoredChannel(r, text) ==
    LET ref == ExtractChannelRef(text)
        base == NormaliseKind("http", ref.base)
    IN  IF ref.err \/ base.err THEN 0
        ELSE IdOf(r.sources, {i \in DOMAIN r.sources :
                                 r.sources[i].base = base.url /\ r.sources[i].chan = ref.channel})

StoredBefore(r, op, text) ==
    CASE op = "add_relay" -> StoredRelay(r, text)
      [] op = "add_rss_source" -> StoredFeed(r, text)
      [] op = "add_channel_source" -> StoredChannel(r, text)
      [] OTHER -> 0

(* C27: an add call whose URL normalises to a stored entry inserts no row, *)
(* raises nothing and returns the id of that entry; at all times no two    *)
(* relays have the same normalised URL, no two sources the same normalised *)
(* feed URL, and no two sources the same (normalised base, handle).        *)
C27_OneRowPerNormalisedUrl ==
    /\ [](\A i, j \in DOMAIN reg.relays :
             i # j => reg.relays[i].norm # reg.relays[j].norm)
    /\ [](\A i, j \in DOMAIN reg.sources :
             i # j =>
                /\ reg.sources[i].rss # NullUrl => reg.sources[i].rss # reg.sources[j].rss
                /\ reg.sources[i].base # NullUrl =>
                      <<reg.sources[i].base, reg.sources[i].chan>> #
                      <<reg.sources[j].base, reg.sources[j].chan>>)
    /\ [][ (reg'.n # reg.n /\ StoredBefore(reg, reg'.last.op, reg'.last.arg) # 0) =>
              /\ reg'.relays = reg.relays /\ reg'.sources = reg.sources
              /\ ~reg'.last.raised
              /\ reg'.last.ret = StoredBefore(reg, reg'.last.op, reg'.last.arg) ]_vars

(* add_relay has returned the id of a relay stored under another spelling, *)
(* with a second relay and a source in the tables.                         *)
C27_Witness ==
    /\ Len(reg.relays) = 2 /\ Len(reg.sources) = 1
    /\ reg.last.op = "add_relay"
    /\ ~reg.last.raised
    /\ \E i \in DOMAIN reg.relays :
          reg.relays[i].id = reg.last.ret /\ reg.relays[i].raw # reg.last.arg

(* The MP4 candidates of the call, those of known height, and the file the *)
(* call returned.                                                          *)
Mp4Of(files) == {files[i] : i \in {j \in DOMAIN files : files[j].mp4}}

KnownOf(files) == {c \in Mp4Of(files) : c.height > 0}

(* C28: the URL returned is that of an MP4 candidate; when a candidate of  *)
(* known height is at most 720 high it is one of the greatest such height; *)
(* when every known height is above 720 it is one of the smallest height;  *)
(* when no height is known it is one of the largest size; none is returned *)
(* only when there is no candidate.                                        *)
C28_PreferredHeight ==
    call.f = "pick" =>
       LET cands == Mp4Of(call.arg)
           known == KnownOf(call.arg)
           under == {c \in known : c.height <= PreferredHeight}
       IN  /\ (call.ret = NoUrl) = (cands = {})
           /\ cands # {} =>
                \E r \in cands :
                   /\ r.url = call.ret
                   /\ under # {} => (r \in under /\ \A c \in under : c.height <= r.height)
                   /\ (known # {} /\ under = {}) =>
                         (r \in known /\ \A c \in known : r.height <= c.height)
                   /\ known = {} => \A c \in cands : c.size <= r.size

(* C29: the URL returned is the same for every order of the same files.    *)
C29_OrderIndependent ==
    (call.f = "pick" /\ call.again) => call.ret = call.before

(* C30: the tags are, in this order: t video, t peertube, the url and m    *)
(* pair of the direct URL (video/mp4) when there is one and else that of   *)
(* the HLS URL (application/x-mpegURL) when there is one, r with the watch *)
(* URL, r with the channel URL when there is one, the alt tag, and the     *)
(* attribution tags of the instance, the author and the channel when they  *)
(* are known.                                                              *)
C30_TagOrder ==
    call.f = "tags" =>
       LET p == call.arg
       IN  call.ret =
              <<Tag("t", "video"), Tag("t", "peertube")>>
              \o (IF p.direct_url # ""
                  THEN <<Tag("url", p.direct_url), Tag("m", "video/mp4")>>
                  ELSE IF p.hls_url # ""
                       THEN <<Tag("url", p.hls_url), Tag("m", "application/x-mpegURL")>>
                       ELSE << >>)
              \o <<Tag("r", p.watch_url)>>
              \o (IF p.channel_url # "" THEN <<Tag("r", p.channel_url)>> ELSE << >>)
              \o (IF p.title # "" THEN <<AltTag(p.title, AuthorOf(p))>> ELSE << >>)
              \o (IF p.peertube_instance # ""
                  THEN <<Tag("peertube:instance", p.peertube_instance)>> ELSE << >>)
              \o (IF p.channel_name # ""
                  THEN <<Tag("peertube:author", p.channel_name)>> ELSE << >>)
              \o (IF p.channel_url # ""
                  THEN <<Tag("peertube:channel", p.channel_url)>> ELSE << >>)

(* C31: the first init_schema stores the defaults 1200, 3 and 1, and a     *)
(* start of the program never changes a rate limit that is stored.         *)
C31_DefaultsOnlyWhenAbsent ==
    /\ [](app.n = 0 =>
            /\ app.settings["min_publish_interval_seconds"] = 1200
            /\ app.settings["max_posts_per_hour"] = 3
            /\ app.settings["max_posts_per_day_per_source"] = 1)
    /\ [][ app'.last.op = "start" =>
              \A k \in LimitKeys : app'.settings[k] = app.settings[k] ]_vars

(* The program has started again after the operator set a limit that is    *)
(* not the default.                                                        *)
C31_Witness ==
    /\ app.last.op = "start"
    /\ \E k \in LimitKeys : app.settings[k] \in SettingValues

C40_SetupTokenOnce ==
    [][ (app'.n # app.n /\ app'.last.op = "complete") =>
           /\ app'.last.ok =>
                 /\ app'.last.arg = app.tokens /\ app.token = app.tokens
                 /\ app.expiry # NULL /\ now < app.expiry
                 /\ app.expiry <= now + TokenTtl
                 /\ app'.token = 0
           /\ ~app'.last.ok =>
                 /\ app'.settings = app.settings /\ app'.token = app.token
                 /\ app'.expiry = app.expiry /\ app'.tokens = app.tokens
           /\ (app.last.op = "complete" /\ app.last.ok) => ~app'.last.ok ]_vars

(* The token of an accepted validation has been presented again and        *)
(* rejected.                                                               *)
C40_Witness ==
    /\ app.last.op = "complete" /\ ~app.last.ok
    /\ app.last.arg # 0 /\ app.last.arg = app.tokens
    /\ app.settings["setup_complete"] = 1

(* The rows a step has added to the video table. *)
AddedRows == {i \in Ids(videos') : i > Len(videos)}

(* The poll of the step has read the listing of its source. *)
ListingRead ==
    LET row == srcs[lastOp'.s]
    IN  \/ row.api /\ lastOp'.api = "items"
        \/ ~(row.api /\ lastOp'.api # "fail") /\ row.rss /\ lastOp'.feed = "ok"

(* C33: the first poll of a source with a look-back of d > 0 days inserts  *)
(* no entry whose published time is known and before now - d * 86400; it   *)
(* inserts the entries whose published time is unknown; a later poll       *)
(* inserts every entry of the listing that is not stored yet.              *)
C33_LookbackOnFirstPoll ==
    [][ lastOp'.kind = "poll" =>
           LET s == lastOp'.s
               row == srcs[s]
               first == row.last_polled_ts = NULL
           IN  /\ (first /\ row.lookback_days > 0) =>
                     \A i \in AddedRows :
                        videos'[i].published_ts = NULL
                        \/ videos'[i].published_ts >= now - row.lookback_days * DayWindow
               /\ ListingRead =>
                     \A k \in DOMAIN up[s] :
                        (~first \/ up[s][k].ts = NULL) =>
                           VideoExists(videos', s, up[s][k].key) ]_vars

(* C34: of two entries a poll inserts, the one published earlier gets the  *)
(* smaller row id and a first_seen_ts that is not later.                   *)
C34_OldestFirst ==
    [][ lastOp'.kind = "poll" =>
           \A i, j \in AddedRows :
              (/\ videos'[i].published_ts # NULL /\ videos'[j].published_ts # NULL
               /\ videos'[i].published_ts < videos'[j].published_ts) =>
                 /\ videos'[i].id < videos'[j].id
                 /\ videos'[i].first_seen_ts <= videos'[j].first_seen_ts ]_vars

(* A poll has inserted two entries with different published times. *)
C34_Witness ==
    /\ lastOp.kind = "poll" /\ lastOp.ret = 2
    /\ \E i, j \in Ids(videos) :
          /\ videos[i].source_id = lastOp.s /\ videos[j].source_id = lastOp.s
          /\ videos[i].first_seen_ts = lastOp.t /\ videos[j].first_seen_ts = lastOp.t
          /\ videos[i].published_ts # NULL
          /\ videos[i].published_ts < videos[j].published_ts

(* C35: the runner polls no disabled source and publishes no video of a    *)
(* disabled source: in a step of the runner a pending video of a disabled  *)
(* source stays pending, the selection never yields such a video, and the  *)
(* pending videos of a source are selectable again once it is enabled.     *)
C35_DisabledSourcesRest ==
    [][ /\ (rpc = "ingest" /\ ing.q # << >> /\ ing' # ing) => enabled[Head(ing.q)]
        /\ (rpc \in {"publish", "book"} /\ videos' # videos) =>
              enabled[videos[rsel].source_id]
        /\ ops' = ops =>
              \A i \in Ids(videos) :
                 (videos[i].status = "pending" /\ ~enabled[videos[i].source_id]) =>
                    videos'[i].status = "pending"
        /\ LET p == SelectNext(videos, enabled, now)
           IN  p # 0 => enabled[videos[p].source_id]
        /\ \A s \in Sources :
              (~enabled[s] /\ enabled'[s]) =>
                 \A i \in Ids(videos) :
                    (videos[i].status = "pending" /\ videos[i].source_id = s) =>
                       i \in PendingRows(videos', enabled') ]_vars

(* The fetch of the poll recorded in lastOp failed: the API listing, or    *)
(* the feed that was read.                                                 *)
FetchFailed(row, op) ==
    \/ row.api /\ op.api = "fail"
    \/ ~(row.api /\ op.api # "fail") /\ row.rss /\ op.feed = "fail"

Resynced(s) ==
    /\ ops' = ops + 1
    /\ \E i \in Ids(videos) :
          /\ videos[i].source_id = s
          /\ videos[i].status = "pending" /\ videos'[i].status = "cancelled"

(* C37: resync-source cancels every pending video of the source and its    *)
(* re-ingestion adds no second row for any of them; a cancelled video      *)
(* stays cancelled in every later step and never gets an event id.         *)
C37_ResyncCancelsForGood ==
    [][ /\ \A s \in Sources :
              Resynced(s) =>
                 \A i \in Ids(videos) :
                    (videos[i].source_id = s /\ videos[i].status = "pending") =>
                       /\ videos'[i].status = "cancelled"
                       /\ \A j \in Ids(videos') \ {i} :
                             ~(videos'[j].source_id = s
                               /\ videos'[j].entry_key = videos[i].entry_key)
        /\ \A i \in Ids(videos) :
              videos[i].status = "cancelled" =>
                 /\ videos'[i].status = "cancelled"
                 /\ videos'[i].nostr_event_id = NULL ]_vars

(* C38: a video is posted exactly when its posted_ts and nostr_event_id    *)
(* are set; a posted video has no error; a video that is pending, failed   *)
(* or cancelled has no posted_ts.                                          *)
C38_PostedFieldsAgree ==
    \A i \in Ids(videos) :
       /\ videos[i].status = "posted" <=>
             (videos[i].posted_ts # NULL /\ videos[i].nostr_event_id # NULL)
       /\ videos[i].status = "posted" => videos[i].error = NoError
       /\ videos[i].status # "posted" => videos[i].posted_ts = NULL

(* C39: with a signing key, a relay, positive limits, a publisher that     *)
(* succeeds and no operator command, every pending video of an enabled     *)
(* source is eventually posted.                                            *)
C39_PendingIsPosted ==
    \A i \in AllIds :
        (i \in Ids(videos) /\ videos[i].status = "pending"
           /\ enabled[videos[i].source_id])
        ~> (i \in Ids(videos) /\ videos[i].status = "posted")

(* Every video is posted, the second video of source 1 more than a day     *)
(* after the first (it has waited for the daily cap of its source), the    *)
(* video of source 2 as well.                                              *)
C39_Witness ==
    /\ Len(videos) = Len(Listing(1)) + Len(Listing(2))
    /\ \A i \in Ids(videos) : videos[i].status = "posted"
    /\ \E i, j \in Ids(videos) :
          /\ videos[i].source_id = 1 /\ videos[j].source_id = 1
          /\ videos[j].posted_ts > videos[i].posted_ts + DayWindow

====
